---- MODULE Spec2Model ----
(***************************************************************************)
(* Credential and cluster-access layer of oke-mcp-server.                  *)
(*                                                                         *)
(* Spec        : the kubeconfig (credential bundle) cache of oke_auth.py   *)
(*               with the signer cache of oci_auth.py, run by concurrent   *)
(*               caller threads.                                           *)
(* SpecResolve : the identity ladder and the lru-cached control client of  *)
(*               oke_mcp_server/auth.py, with invalidation.                *)
(* SpecLadder  : the same callers without invalidation.                    *)
(* SpecDecode  : the decoding ladder of oke_auth.py applied to one text.   *)
(* SpecBundle  : _load_kubeconfig_for_cluster applied to one bundle.       *)
(* SpecLifetime: the lifetime sent to create_kubeconfig and the lifetime   *)
(*               of the cache entry, for one requested lifetime.           *)
(* SpecWrite   : the guarded write handlers of handlers/oke.py.            *)
(* SpecRegion  : the callers of SpecLadder while the region changes.       *)
(* SpecEndpoint: _resolve_endpoint applied to one spelling of the endpoint.*)
(* SpecPatch   : _maybe_patch_security_token_exec applied once and twice   *)
(*               to one list of exec args.                                 *)
(* SpecSigner  : the functions of oci_auth.py called in any order while    *)
(*               the key and token files change.                           *)
(***************************************************************************)
EXTENDS Integers, Sequences, FiniteSets, TLC

VARIABLES
    clock,           \* time.time(), in seconds
    cfgCache,        \* oke_auth._CFG_CACHE: key -> [cfg, expiresAt]
    cacheLock,       \* oke_auth._CACHE_LOCK: the holding thread, or NoneVal
    defaultConfig,   \* kubernetes Configuration default set by load_kube_config_from_dict
    cachedConfig,    \* oci_auth._cached_config: <<>> (None) or <<config>>
    cachedSigner,    \* oci_auth._cached_signer: NoneVal or a signer kind
    env,             \* the environment and file-system snapshot of the process
    pc,              \* each caller thread's position
    loc,             \* each caller thread's arguments and locals
    ret,             \* the bundle the client returned to each thread is built from
    lruCache,        \* auth.get_container_engine_client's lru_cache: call key -> client
    nCalls,          \* number of get_core_v1_client calls started
    ceCalls,         \* number of create_kubeconfig calls issued (the call counter)
    lastWriter,      \* history: key -> thread that wrote the entry last
    preInvalidate,   \* history: keys whose entry was written before the last invalidation
    input,           \* <<argument>> a function under study is applied to, or NotApplied
    output           \* <<what the function made of it>>, or NotApplied

vars == <<clock, cfgCache, cacheLock, defaultConfig, cachedConfig, cachedSigner,
          env, pc, loc, ret, lruCache, nCalls, ceCalls, lastWriter, preInvalidate,
          input, output>>

----------------------------------------------------------------------------
(* Bounds of the model *)

MaxCalls == 2
MaxClock == 600
TickStep == 300

Threads == {"t1", "t2"}

----------------------------------------------------------------------------
(* Program constants *)

MinExpiration == 300
MaxExpiration == 86400
DefaultExpiration == 3600
TtlDivisor == 6
MinTtl == 300
MaxTtl == 1200

NoneVal == "None"

\* the value of input and output where no function is under study
NotApplied == <<>>
ENDPOINT_PUBLIC_ENDPOINT == "PUBLIC_ENDPOINT"
ENDPOINT_PRIVATE_ENDPOINT == "PRIVATE_ENDPOINT"
DefaultTokenVersion == "2.0.0"

Max(a, b) == IF a >= b THEN a ELSE b
Min(a, b) == IF a <= b THEN a ELSE b

\* an empty lru_cache
EmptyLru == [k \in {} |-> NoneVal]

----------------------------------------------------------------------------
(* The environment: variables, configuration file and key/token files.     *)
(* One snapshot is fixed per behaviour.                                    *)

\* A snapshot with nothing set: no variable, no configuration file, no key or
\* token file, no principal available.
\*   inCluster    OKE_IN_CLUSTER / RUN_MODE ask for the in-cluster configuration
\*   okeEndpoint  OKE_ENDPOINT
\*   ociCliAuth   OCI_CLI_AUTH;  settingsAuth: settings.oci_cli_auth, read at import
\*   ociRegion    OCI_REGION;    ociCliRegion: OCI_CLI_REGION
\*   rpSignal     OCI_RESOURCE_PRINCIPAL_VERSION is set
\*   rpOk, rpRegion   the resource-principal signer builds; its region
\*   ipOk, ipRegion   the instance-principal signer builds; its region
\*   cfgFileOk    the OCI configuration file loads;  cfgRegion: its region
\*   hasTokenRef  security_token_file in the configuration
\*   hasDelegRef  delegation_token_file in the configuration
\*   envTokenFile OCI_SECURITY_TOKEN_FILE is set
\*   tokenExists, tokenReadable   the token file exists; it can be read
\*   hasApiKeys   tenancy, user and fingerprint in the configuration
\*   cfgKeyFile   key_file in the configuration
\*   envKeyFile   OCI_KEY_FILE is set
\*   keyOk        the private key file exists, reads and parses
EnvNone ==
    [inCluster |-> FALSE, okeEndpoint |-> NoneVal, ociCliAuth |-> NoneVal,
     settingsAuth |-> NoneVal, ociRegion |-> NoneVal, ociCliRegion |-> NoneVal,
     rpSignal |-> FALSE, rpOk |-> FALSE, rpRegion |-> NoneVal,
     ipOk |-> FALSE, ipRegion |-> NoneVal,
     cfgFileOk |-> FALSE, cfgRegion |-> NoneVal, hasTokenRef |-> FALSE, hasDelegRef |-> FALSE,
     envTokenFile |-> FALSE, tokenExists |-> FALSE, tokenReadable |-> FALSE,
     hasApiKeys |-> FALSE, cfgKeyFile |-> FALSE, envKeyFile |-> FALSE, keyOk |-> FALSE,
     enableWrite |-> NoneVal]

\* a configuration file with API-key fields and a region, and a good key
EnvApiKey ==
    [EnvNone EXCEPT !.cfgFileOk = TRUE, !.cfgRegion = "r1", !.hasApiKeys = TRUE,
                    !.cfgKeyFile = TRUE, !.keyOk = TRUE]
\* the same with a security_token_file entry whose file is gone, under OCI_CLI_AUTH
EnvTokenMissing ==
    [EnvApiKey EXCEPT !.hasTokenRef = TRUE, !.ociCliAuth = "security_token",
                      !.settingsAuth = "security_token"]
EnvNoConfig == EnvNone
EnvInCluster == [EnvNone EXCEPT !.inCluster = TRUE]

Environments == {EnvApiKey, EnvTokenMissing, EnvNoConfig, EnvInCluster}

----------------------------------------------------------------------------
(* oci_auth.py: configuration and signer, cached in module globals *)

EmptyConfig == [loaded |-> FALSE, hasTokenRef |-> FALSE, hasApiKeys |-> FALSE]

\* oci.config.from_file, or {} when it raises
LoadedConfig(e) ==
    IF e.cfgFileOk
    THEN [loaded |-> TRUE, hasTokenRef |-> e.hasTokenRef, hasApiKeys |-> e.hasApiKeys]
    ELSE EmptyConfig

\* get_config(): the cached configuration if any, else a fresh load
get_config(cached, e) == IF cached # <<>> THEN cached[1] ELSE LoadedConfig(e)

\* what get_config() leaves in _cached_config: a failed load caches nothing
get_config_cache(cached, e) ==
    IF cached # <<>> THEN cached
    ELSE IF e.cfgFileOk THEN <<LoadedConfig(e)>> ELSE <<>>

\* a get_signer that builds on every call
get_signer_Rebuild(cached, config, e) ==
    IF config.hasTokenRef /\ e.tokenExists
    THEN (IF e.tokenReadable /\ e.keyOk THEN "SecurityToken" ELSE NoneVal)
    ELSE IF ~config.hasApiKeys THEN NoneVal
    ELSE IF e.keyOk THEN "UserAPIKey" ELSE NoneVal

\* get_signer(config): the signer it returns, NoneVal when it returns None.
\* A successful build is stored in _cached_signer; a failed one stores nothing,
\* so the returned value is also what _cached_signer holds afterwards.
get_signer(cached, config, e) ==
    IF cached # NoneVal THEN cached
    ELSE IF config.hasTokenRef /\ e.tokenExists
         THEN (IF e.tokenReadable /\ e.keyOk THEN "SecurityToken" ELSE NoneVal)
    ELSE IF ~config.hasApiKeys THEN NoneVal
    ELSE IF e.keyOk THEN "UserAPIKey" ELSE NoneVal

\* oci.container_engine.ContainerEngineClient(config, signer=signer): the SDK
\* validates the configuration unless the signer is self-sufficient
ClientConstructs(config, signer) == signer = "SecurityToken" \/ config.hasApiKeys

----------------------------------------------------------------------------
(* Kubeconfig documents *)

NoKey == "<absent>"

Ctx(n, c, u) == [name |-> n, cluster |-> c, user |-> u]
User(n, a) == [name |-> n, args |-> a]

\* cluster and serial identify the exchange that minted the document
Kubeconfig(c, n, cur, ctxs, cls, us) ==
    [cluster |-> c, serial |-> n, cc |-> cur, contexts |-> ctxs, clusters |-> cls, users |-> us]

NoCfg == Kubeconfig(NoneVal, 0, NoKey, <<>>, <<>>, <<>>)
InClusterCfg == Kubeconfig("in-cluster", 0, "in-cluster", <<>>, <<>>, <<>>)

ExecArgs == <<"ce", "cluster", "generate-token">>

\* the documents create_kubeconfig is seen to return for cluster c, exchange n:
\* one without current-context (as some SDK versions emit it), one with nothing
KcNoCurrent(c, n) ==
    Kubeconfig(c, n, NoKey, <<Ctx("context-" \o c, c, "user-" \o c)>>,
               <<c>>, <<User("user-" \o c, ExecArgs)>>)
KcEmpty(c, n) == Kubeconfig(c, n, NoKey, <<>>, <<>>, <<>>)

KcClustersOnly(c, n) == Kubeconfig(c, n, NoKey, <<>>, <<c>>, <<>>)

(* Response texts *)

\* A response text is a block-style YAML body of several lines, free of quote
\* characters and backslashes, under layers of transport encoding:
\*   doc      the value the body denotes
\*   mapping  whether that value is a mapping (else a scalar)
\*   colons   occurrences of ": " in the body, 2 standing for two or more
\*   esc      times the body was escaped (a newline written as backslash n)
\*   quote    the quote character wrapped around the escaped body, or NoQuote
\*   pad      whether blank space surrounds the whole
NoQuote == "<none>"
DoubleQuote == "\""
SingleQuote == "'"

Text(quote, esc, pad, colons, mapping, doc) ==
    [quote |-> quote, esc |-> esc, pad |-> pad, colons |-> colons, mapping |-> mapping, doc |-> doc]

\* the body as the service writes it: the canonical text
YamlText(doc) == Text(NoQuote, 0, FALSE, 2, TRUE, doc)
ScalarText == Text(NoQuote, 0, FALSE, 0, FALSE, NoCfg)
NoText == ScalarText

\* the same body wrapped in one layer of double quotes, newlines escaped
QuotedEscaped(text) == [text EXCEPT !.quote = DoubleQuote, !.esc = 1]

Responses(c, n) == {YamlText(KcNoCurrent(c, n)), YamlText(KcEmpty(c, n)), ScalarText}

\* the mapping an escaped body with a single ": " reads as: the one line up to
\* that colon is the only key, the rest the value; none of the bundle's keys
EscapedLineCfg(doc) == Kubeconfig("<escaped line>", doc.serial, NoKey, <<>>, <<>>, <<>>)

YamlMapping(doc) == [kind |-> "mapping", doc |-> doc]
YamlScalar == [kind |-> "scalar", doc |-> NoCfg]
YamlError == [kind |-> "error", doc |-> NoCfg]

\* yaml.safe_load(text): a quoted text is one quoted scalar; an escaped body is
\* one line in which ":" followed by a backslash belongs to a plain scalar, so
\* the line is a scalar, a one-key mapping, or (a second ": ") a scanner error
yaml_safe_load(text) ==
    IF text.quote # NoQuote THEN YamlScalar
    ELSE IF text.esc = 0 THEN (IF text.mapping THEN YamlMapping(text.doc) ELSE YamlScalar)
    ELSE IF text.colons = 0 THEN YamlScalar
    ELSE IF text.colons = 1 THEN YamlMapping(EscapedLineCfg(text.doc))
    ELSE YamlError

\* _try_parse_yaml(text): <<mapping>>, or <<>> for None
_try_parse_yaml(text) ==
    LET val == yaml_safe_load(text)
    IN  IF val.kind = "mapping" THEN <<val.doc>> ELSE <<>>

\* str.strip()
strip(text) == [text EXCEPT !.pad = FALSE]

\* s.startswith(q) and s.endswith(q), for either quote character
Wrapped(s) == ~s.pad /\ s.quote # NoQuote

\* s[1:-1] of a wrapped text
Unwrap(s) == [s EXCEPT !.quote = NoQuote]

\* bytes(text, 'utf-8').decode('unicode_escape'): one layer of escapes undone
unicode_escape(text) == [text EXCEPT !.esc = IF text.esc > 0 THEN text.esc - 1 ELSE 0]

\* json.loads(text) when it is a str: <<inner>>, else <<>>. A JSON string is
\* double-quoted and holds no raw newline; blank space around it is allowed
json_loads(text) ==
    IF text.quote = DoubleQuote /\ text.esc > 0
    THEN <<[text EXCEPT !.quote = NoQuote, !.esc = text.esc - 1, !.pad = FALSE]>>
    ELSE <<>>

Decoded(cfg, by) == [cfg |-> cfg, by |-> by]
Undecoded == Decoded(<<>>, NoneVal)

\* 1) and 2): the quote-stripped text, then that text unescaped
QuoteStripped(kubeconfig_str) ==
    LET s == strip(kubeconfig_str)
        s1 == Unwrap(s)
        s1u == unicode_escape(s1)
    IN  IF ~Wrapped(s) THEN Undecoded
        ELSE IF _try_parse_yaml(s1) # <<>> THEN Decoded(_try_parse_yaml(s1), "s1")
        ELSE IF _try_parse_yaml(s1u) # <<>> THEN Decoded(_try_parse_yaml(s1u), "s1u")
        ELSE Undecoded

\* 3): the text read as one JSON string, then that string unescaped
JsonUnquoted(kubeconfig_str) ==
    LET inner == json_loads(kubeconfig_str)
    IN  IF inner = <<>> THEN Undecoded
        ELSE IF _try_parse_yaml(inner[1]) # <<>> THEN Decoded(_try_parse_yaml(inner[1]), "inner")
        ELSE IF _try_parse_yaml(unicode_escape(inner[1])) # <<>>
             THEN Decoded(_try_parse_yaml(unicode_escape(inner[1])), "inner_u")
        ELSE Undecoded

\* 4): the original text unescaped
WholeUnescaped(kubeconfig_str) ==
    LET s2 == unicode_escape(kubeconfig_str)
    IN  IF _try_parse_yaml(s2) # <<>> THEN Decoded(_try_parse_yaml(s2), "s2") ELSE Undecoded

\* the ladder with the JSON reading tried before the quote stripping
DecodeKubeconfig_JsonFirst(kubeconfig_str) ==
    IF _try_parse_yaml(kubeconfig_str) # <<>>
    THEN Decoded(_try_parse_yaml(kubeconfig_str), "raw")
    ELSE IF JsonUnquoted(kubeconfig_str) # Undecoded THEN JsonUnquoted(kubeconfig_str)
    ELSE IF QuoteStripped(kubeconfig_str) # Undecoded THEN QuoteStripped(kubeconfig_str)
    ELSE WholeUnescaped(kubeconfig_str)

\* the decoding ladder of _load_kubeconfig_for_cluster: cfg, and the candidate
\* that gave it; cfg = <<>> is the ValueError
DecodeKubeconfig(kubeconfig_str) ==
    IF _try_parse_yaml(kubeconfig_str) # <<>>
    THEN Decoded(_try_parse_yaml(kubeconfig_str), "raw")
    ELSE IF QuoteStripped(kubeconfig_str) # Undecoded THEN QuoteStripped(kubeconfig_str)
    ELSE IF JsonUnquoted(kubeconfig_str) # Undecoded THEN JsonUnquoted(kubeconfig_str)
    ELSE WholeUnescaped(kubeconfig_str)

IsDecoded(text) == DecodeKubeconfig(text).cfg # <<>>
DecodedCfg(text) == IF IsDecoded(text) THEN DecodeKubeconfig(text).cfg[1] ELSE NoCfg

RECURSIVE IndexOf(_, _, _)
\* args.index(x) from position i on; 0 when absent
IndexOf(args, x, i) ==
    IF i > Len(args) THEN 0
    ELSE IF args[i] = x THEN i
    ELSE IndexOf(args, x, i + 1)

\* the exec args of one user after _maybe_patch_security_token_exec
PatchArgs(args) ==
    LET idx == IndexOf(args, "--auth", 1) IN
    IF idx = 0 THEN args \o <<"--auth", "security_token">>
    ELSE IF idx + 1 <= Len(args) THEN [args EXCEPT ![idx + 1] = "security_token"]
    ELSE args \o <<"--auth", "security_token">>

\* _maybe_patch_security_token_exec(cfg) under OCI_CLI_AUTH = auth
\* (the only spellings the environments use are lower case)
_maybe_patch_security_token_exec(cfg, auth) ==
    IF auth # "security_token" THEN cfg
    ELSE [cfg EXCEPT !.users = [i \in 1..Len(cfg.users) |->
                                   [cfg.users[i] EXCEPT !.args = PatchArgs(cfg.users[i].args)]]]

\* first repair: exactly one context and no current-context
SelectSingleContext(cfg) ==
    IF cfg.cc = NoKey /\ Len(cfg.contexts) = 1 /\ cfg.contexts[1].name # ""
    THEN [cfg EXCEPT !.cc = cfg.contexts[1].name]
    ELSE cfg

\* a synthesis that names the current context without appending the context
SynthesizeContext_NameOnly(cfg) ==
    IF cfg.cc # NoKey \/ cfg.clusters = <<>> \/ cfg.users = <<>> THEN cfg
    ELSE [cfg EXCEPT !.cc = "ctx-" \o cfg.clusters[1] \o "-" \o cfg.users[1].name]

\* second repair: synthesize from the first cluster and user, else first context
SynthesizeContext(cfg) ==
    IF cfg.cc # NoKey THEN cfg
    ELSE LET cluster_name == IF Len(cfg.clusters) > 0 THEN cfg.clusters[1] ELSE ""
             user_name == IF Len(cfg.users) > 0 THEN cfg.users[1].name ELSE ""
             ctx_name == "ctx-" \o cluster_name \o "-" \o user_name
         IN  IF cluster_name # "" /\ user_name # ""
             THEN [cfg EXCEPT !.contexts = Append(cfg.contexts, Ctx(ctx_name, cluster_name, user_name)),
                              !.cc = ctx_name]
             ELSE IF Len(cfg.contexts) > 0 /\ cfg.contexts[1].name # ""
             THEN [cfg EXCEPT !.cc = cfg.contexts[1].name]
             ELSE cfg

\* the current-context normalization applied to every decoded mapping
NormalizeContext(cfg) == SynthesizeContext(SelectSingleContext(cfg))

\* a loader that accepts every mapping
LoadKubeConfigOk_NeverRaises(cfg) == TRUE

\* a loader that asks for a current-context key and nothing else
LoadKubeConfigOk_AnyCurrent(cfg) == cfg.cc # NoKey

\* k8s_config.load_kube_config_from_dict(cfg) succeeds: the current context
\* names a context of the list and that context's cluster is defined
LoadKubeConfigOk(cfg) ==
    /\ cfg.cc # NoKey
    /\ \E i \in 1..Len(cfg.contexts) :
          /\ cfg.contexts[i].name = cfg.cc
          /\ \E j \in 1..Len(cfg.clusters) : cfg.clusters[j] = cfg.contexts[i].cluster

----------------------------------------------------------------------------
(* Endpoint preference, requested lifetime and cache lifetime *)

\* the characters str.strip() removes, among those the spellings use
Whitespace == {" ", "\t", "\n"}

\* str.upper() on one character
UpperChar(c) ==
    CASE c = "a" -> "A" [] c = "b" -> "B" [] c = "c" -> "C" [] c = "d" -> "D"
      [] c = "e" -> "E" [] c = "f" -> "F" [] c = "g" -> "G" [] c = "h" -> "H"
      [] c = "i" -> "I" [] c = "j" -> "J" [] c = "k" -> "K" [] c = "l" -> "L"
      [] c = "m" -> "M" [] c = "n" -> "N" [] c = "o" -> "O" [] c = "p" -> "P"
      [] c = "q" -> "Q" [] c = "r" -> "R" [] c = "s" -> "S" [] c = "t" -> "T"
      [] c = "u" -> "U" [] c = "v" -> "V" [] c = "w" -> "W" [] c = "x" -> "X"
      [] c = "y" -> "Y" [] c = "z" -> "Z" [] OTHER -> c

RECURSIVE str_upper(_)
str_upper(s) ==
    IF Len(s) = 0 THEN s
    ELSE UpperChar(SubSeq(s, 1, 1)) \o str_upper(SubSeq(s, 2, Len(s)))

RECURSIVE str_lstrip(_)
str_lstrip(s) ==
    IF Len(s) > 0 /\ SubSeq(s, 1, 1) \in Whitespace THEN str_lstrip(SubSeq(s, 2, Len(s)))
    ELSE s

RECURSIVE str_rstrip(_)
str_rstrip(s) ==
    IF Len(s) > 0 /\ SubSeq(s, Len(s), Len(s)) \in Whitespace
    THEN str_rstrip(SubSeq(s, 1, Len(s) - 1))
    ELSE s

\* an upper-casing that keeps the surrounding blank space
StripUpper_NoStrip(s) == str_upper(s)

\* endpoint.strip().upper()
StripUpper(s) == str_upper(str_rstrip(str_lstrip(s)))

\* an unset or empty OKE_ENDPOINT is not an override
_resolve_endpoint(endpoint, e) ==
    LET ep == IF endpoint = NoneVal /\ e.okeEndpoint \notin {NoneVal, ""}
              THEN e.okeEndpoint ELSE endpoint
    IN  IF ep = NoneVal THEN ENDPOINT_PUBLIC_ENDPOINT
        ELSE IF StripUpper(ep) \in {"PUBLIC", "PUBLIC_ENDPOINT"} THEN ENDPOINT_PUBLIC_ENDPOINT
        ELSE IF StripUpper(ep) \in {"PRIVATE", "PRIVATE_ENDPOINT"} THEN ENDPOINT_PRIVATE_ENDPOINT
        ELSE ep

\* the expiration sent to create_kubeconfig: <<>> is None, <<n>> an integer
ClampExpiration(expiration) ==
    IF expiration = <<>> THEN <<>>
    ELSE <<Max(MinExpiration, Min(expiration[1], MaxExpiration))>>

\* a ttl without the lower limit
CacheTtl_NoFloor(expiration) ==
    LET e == IF expiration = <<>> \/ expiration[1] = 0 THEN DefaultExpiration ELSE expiration[1]
    IN  Min(e \div TtlDivisor, MaxTtl)

\* ttl = max(300, min(int(expiration or 3600) // 6, 1200)) on the clamped expiration
CacheTtl(expiration) ==
    LET e == IF expiration = <<>> \/ expiration[1] = 0 THEN DefaultExpiration ELSE expiration[1]
    IN  Max(MinTtl, Min(e \div TtlDivisor, MaxTtl))

\* an entry still served at the instant it expires
CacheFresh_InclusiveExpiry(cache, key, now) ==
    key \in DOMAIN cache /\ cache[key].expiresAt >= now

\* entry and entry[1] > now
CacheFresh(cache, key, now) == key \in DOMAIN cache /\ cache[key].expiresAt > now

\* a write that keeps the entry already present (dict.setdefault)
CachePut_KeepFirst(cache, key, cfg, expiresAt) ==
    [k \in (DOMAIN cache) \cup {key} |->
        IF k \in DOMAIN cache THEN cache[k] ELSE [cfg |-> cfg, expiresAt |-> expiresAt]]

\* a write that also drops every other entry
CachePut_OnlyLatest(cache, key, cfg, expiresAt) ==
    [k \in {key} |-> [cfg |-> cfg, expiresAt |-> expiresAt]]

\* _CFG_CACHE[cache_key] = (cfg, time.time() + ttl)
CachePut(cache, key, cfg, expiresAt) ==
    [k \in (DOMAIN cache) \cup {key} |->
        IF k = key THEN [cfg |-> cfg, expiresAt |-> expiresAt] ELSE cache[k]]

EmptyCache == [k \in {} |-> [cfg |-> NoCfg, expiresAt |-> 0]]

----------------------------------------------------------------------------
(* Caller threads of oke_auth.get_core_v1_client *)

\* the calls the callers make: cluster_id, endpoint, expiration (<<>> is None)
Request(c, ep, x) == [cluster |-> c, endpoint |-> ep, expiration |-> x]
Requests ==
    {Request("c1", NoneVal, <<3600>>), Request("c1", "public", <<60>>),
     Request("c2", "private", <<3600>>)}

NoKeyYet == <<NoneVal, NoneVal, NoneVal>>

\* what get_container_engine_client's body did: the auth it resolved, the mode
\* whose branch it took, the region it found, the error it raised, the modes
\* whose signer it tried to build
Outcome(auth, ok, mode, region, error, attempted) ==
    [auth |-> auth, ok |-> ok, mode |-> mode, region |-> region, error |-> error,
     attempted |-> attempted]
NoOutcome == Outcome(NoneVal, FALSE, NoneVal, NoneVal, NoneVal, {})

\* a ContainerEngineClient: its signer's mode, its region, the call that built
\* it; stale (history): it was built before an invalidation and cached after it
Client(mode, region, id, stale) == [mode |-> mode, region |-> region, id |-> id, stale |-> stale]
NoClient == Client(NoneVal, NoneVal, 0, FALSE)

\* arguments and locals of one call; a local is reset once the code no longer
\* reads it. hit: the lookup served the cached entry; stale: that entry was
\* written before the last invalidation; exchanged: create_kubeconfig was called.
\* For the package's calls: fn the function called, arg the auth argument, auth the
\* resolved auth, lruKey the lru_cache key, callNo the call's number, lruHit the
\* cache served the client, built the body's outcome, client the client in hand,
\* reusable the clients cached for the same auth value when the call started,
\* spanned whether an invalidation ran during the call of
\* get_container_engine_client, before ("unbuilt") or after ("built") its body
\* built the client
IdleLoc ==
    [cluster |-> NoneVal, key |-> NoKeyYet, now |-> 0, requested |-> <<>>, expiration |-> <<>>,
     signer |-> NoneVal, text |-> NoText, cfg |-> NoCfg, hit |-> FALSE, stale |-> FALSE,
     exchanged |-> FALSE, failure |-> NoneVal,
     fn |-> NoneVal, arg |-> NoneVal, auth |-> NoneVal, lruKey |-> NoneVal, callNo |-> 0,
     lruHit |-> FALSE, built |-> NoOutcome, client |-> NoClient, reusable |-> {},
     spanned |-> NoneVal]

\* the locals left when the call raises at `stage`
Raised(l, stage) ==
    [IdleLoc EXCEPT !.cluster = l.cluster, !.key = l.key, !.exchanged = l.exchanged,
                    !.failure = stage]

EmptyLog == [k \in {} |-> NoneVal]

Init ==
    /\ clock = 0
    /\ cfgCache = EmptyCache
    /\ cacheLock = NoneVal
    /\ defaultConfig = NoCfg
    /\ cachedConfig = <<>>
    /\ cachedSigner = NoneVal
    /\ env \in Environments
    /\ pc = [t \in Threads |-> "idle"]
    /\ loc = [t \in Threads |-> IdleLoc]
    /\ ret = [t \in Threads |-> NoCfg]
    /\ lruCache = EmptyLru
    /\ nCalls = 0
    /\ ceCalls = 0
    /\ lastWriter = EmptyLog
    /\ preInvalidate = {}
    /\ input = NotApplied
    /\ output = NotApplied

\* time passes
Tick ==
    /\ clock < MaxClock
    /\ clock' = clock + TickStep
    /\ UNCHANGED <<input, output, lruCache, cfgCache, cacheLock, defaultConfig, cachedConfig, cachedSigner, env, pc,
                   loc, ret, nCalls, ceCalls, lastWriter, preInvalidate>>

\* a cache key that also tells requests of different lifetimes apart
cache_key_PerLifetime(cluster_id, endpoint, token_version, expiration) ==
    <<cluster_id, endpoint, token_version, expiration>>

\* cache_key of _load_kubeconfig_for_cluster(cluster_id, endpoint,
\* token_version, expiration): the expiration is not part of it
cache_key(cluster_id, endpoint, token_version, expiration) ==
    <<cluster_id, endpoint, token_version>>

\* get_core_v1_client up to the cache key and `now` of _load_kubeconfig_for_cluster
GetCoreV1Client(t, cluster, endpoint, expiration) ==
    /\ pc[t] = "idle"
    /\ nCalls < MaxCalls
    /\ nCalls' = nCalls + 1
    /\ IF env.inCluster
       THEN /\ defaultConfig' = InClusterCfg
            /\ loc' = [loc EXCEPT ![t] = [IdleLoc EXCEPT !.cluster = cluster]]
            /\ pc' = [pc EXCEPT ![t] = "build"]
       ELSE /\ loc' = [loc EXCEPT ![t] =
                         [IdleLoc EXCEPT !.cluster = cluster,
                                         !.key = cache_key(cluster,
                                                             _resolve_endpoint(endpoint, env),
                                                             DefaultTokenVersion, expiration),
                                         !.now = clock,
                                         !.requested = expiration,
                                         !.expiration = expiration]]
            /\ pc' = [pc EXCEPT ![t] = "acquire_lookup"]
            /\ UNCHANGED defaultConfig
    /\ UNCHANGED <<input, output, lruCache, clock, cfgCache, cacheLock, cachedConfig, cachedSigner, env, ret, ceCalls,
                   lastWriter, preInvalidate>>

\* a call in flight for the key of t's call, by another thread
InFlightElsewhere(t) ==
    \E u \in Threads \ {t} :
        /\ loc[u].key = loc[t].key
        /\ pc[u] \in {"identity", "exchange", "decode", "acquire_store", "store"}

\* an acquisition that also waits for the calls in flight for the same key
AcquireLock_PerKey(t) == cacheLock = NoneVal /\ ~InFlightElsewhere(t)

\* _CACHE_LOCK can be taken by t: no thread holds it (t never holds it here)
AcquireLock(t) == cacheLock = NoneVal

\* a with block that keeps the lock when it is left
ReleaseLock_Kept(t) == t

\* the lock after t leaves its with block
ReleaseLock(t) == NoneVal

\* with _CACHE_LOCK: (before the lookup)
AcquireForLookup(t) ==
    /\ pc[t] = "acquire_lookup"
    /\ AcquireLock(t)
    /\ cacheLock' = t
    /\ pc' = [pc EXCEPT ![t] = "lookup"]
    /\ UNCHANGED <<input, output, lruCache, clock, cfgCache, defaultConfig, cachedConfig, cachedSigner, env, loc, ret,
                   nCalls, ceCalls, lastWriter, preInvalidate>>

\* the lookup under the lock: a fresh entry is loaded and the call returns
CacheLookup(t) ==
    LET key == loc[t].key IN
    /\ pc[t] = "lookup"
    /\ cacheLock = t
    /\ cacheLock' = ReleaseLock(t)
    /\ IF CacheFresh(cfgCache, key, loc[t].now)
       THEN /\ defaultConfig' = cfgCache[key].cfg
            /\ loc' = [loc EXCEPT ![t].hit = TRUE,
                                  ![t].stale = key \in preInvalidate,
                                  ![t].cfg = cfgCache[key].cfg,
                                  ![t].now = 0,
                                  ![t].requested = <<>>,
                                  ![t].expiration = <<>>]
            /\ pc' = [pc EXCEPT ![t] = "build"]
       ELSE /\ loc' = [loc EXCEPT ![t].now = 0]
            /\ pc' = [pc EXCEPT ![t] = "identity"]
            /\ UNCHANGED defaultConfig
    /\ UNCHANGED <<input, output, lruCache, clock, cfgCache, cachedConfig, cachedSigner, env, ret, nCalls, ceCalls,
                   lastWriter, preInvalidate>>

\* config = get_config(); signer = get_signer(config); ce = ContainerEngineClient(...)
ResolveIdentity(t) ==
    LET config == get_config(cachedConfig, env)
        signer == get_signer(cachedSigner, config, env)
    IN
    /\ pc[t] = "identity"
    /\ cachedConfig' = get_config_cache(cachedConfig, env)
    /\ cachedSigner' = signer
    /\ IF ClientConstructs(config, signer)
       THEN /\ loc' = [loc EXCEPT ![t].signer = signer]
            /\ pc' = [pc EXCEPT ![t] = "exchange"]
       ELSE /\ loc' = [loc EXCEPT ![t] = Raised(loc[t], "identity")]
            /\ pc' = [pc EXCEPT ![t] = "failed"]
    /\ UNCHANGED <<input, output, lruCache, clock, cfgCache, cacheLock, defaultConfig, env, ret, nCalls, ceCalls,
                   lastWriter, preInvalidate>>

\* the expiration is clamped and ce.create_kubeconfig is called; the service
\* answers with a payload, or the call raises (an unsigned request always does)
Exchange(t) ==
    /\ pc[t] = "exchange"
    /\ ceCalls' = ceCalls + 1
    /\ \/ /\ loc[t].signer # NoneVal
          /\ \E text \in Responses(loc[t].cluster, ceCalls + 1) :
                loc' = [loc EXCEPT ![t].expiration = ClampExpiration(loc[t].expiration),
                                   ![t].exchanged = TRUE,
                                   ![t].signer = NoneVal,
                                   ![t].text = text]
          /\ pc' = [pc EXCEPT ![t] = "decode"]
       \/ /\ loc' = [loc EXCEPT ![t] = Raised([loc[t] EXCEPT !.exchanged = TRUE], "exchange")]
          /\ pc' = [pc EXCEPT ![t] = "failed"]
    /\ UNCHANGED <<input, output, lruCache, clock, cfgCache, cacheLock, defaultConfig, cachedConfig, cachedSigner, env,
                   ret, nCalls, lastWriter, preInvalidate>>

\* decode, patch, normalize the current context, load into the kubernetes client
DecodeAndLoad(t) ==
    LET cfg == NormalizeContext(
                   _maybe_patch_security_token_exec(DecodedCfg(loc[t].text), env.ociCliAuth))
    IN
    /\ pc[t] = "decode"
    /\ IF ~IsDecoded(loc[t].text)
       THEN /\ loc' = [loc EXCEPT ![t] = [Raised(loc[t], "decode") EXCEPT !.text = loc[t].text]]
            /\ pc' = [pc EXCEPT ![t] = "failed"]
            /\ UNCHANGED defaultConfig
       ELSE IF ~LoadKubeConfigOk(cfg)
       THEN /\ loc' = [loc EXCEPT ![t] = [Raised(loc[t], "context") EXCEPT !.text = loc[t].text]]
            /\ pc' = [pc EXCEPT ![t] = "failed"]
            /\ UNCHANGED defaultConfig
       ELSE /\ loc' = [loc EXCEPT ![t].cfg = cfg, ![t].text = NoText]
            /\ defaultConfig' = cfg
            /\ pc' = [pc EXCEPT ![t] = "acquire_store"]
    /\ UNCHANGED <<input, output, lruCache, clock, cfgCache, cacheLock, cachedConfig, cachedSigner, env, ret, nCalls,
                   ceCalls, lastWriter, preInvalidate>>

\* with _CACHE_LOCK: (before the write)
AcquireForStore(t) ==
    /\ pc[t] = "acquire_store"
    /\ AcquireLock(t)
    /\ cacheLock' = t
    /\ pc' = [pc EXCEPT ![t] = "store"]
    /\ UNCHANGED <<input, output, lruCache, clock, cfgCache, defaultConfig, cachedConfig, cachedSigner, env, loc, ret,
                   nCalls, ceCalls, lastWriter, preInvalidate>>

\* _CFG_CACHE[cache_key] = (cfg, time.time() + ttl)
CacheStore(t) ==
    LET key == loc[t].key IN
    /\ pc[t] = "store"
    /\ cacheLock = t
    /\ cacheLock' = ReleaseLock(t)
    /\ cfgCache' = CachePut(cfgCache, key, loc[t].cfg, clock + CacheTtl(loc[t].expiration))
    /\ lastWriter' = [k \in (DOMAIN lastWriter) \cup {key} |->
                         IF k = key THEN t ELSE lastWriter[k]]
    /\ preInvalidate' = preInvalidate \ {key}
    /\ loc' = [loc EXCEPT ![t].requested = <<>>, ![t].expiration = <<>>]
    /\ pc' = [pc EXCEPT ![t] = "build"]
    /\ UNCHANGED <<input, output, lruCache, clock, defaultConfig, cachedConfig, cachedSigner, env, ret, nCalls, ceCalls>>

\* return k8s_client.CoreV1Api(): built from the default configuration
BuildClient(t) ==
    /\ pc[t] = "build"
    /\ ret' = [ret EXCEPT ![t] = defaultConfig]
    /\ pc' = [pc EXCEPT ![t] = "done"]
    /\ UNCHANGED <<input, output, lruCache, clock, cfgCache, cacheLock, defaultConfig, cachedConfig, cachedSigner, env,
                   loc, nCalls, ceCalls, lastWriter, preInvalidate>>

\* the caller takes the client, or the exception
Return(t) ==
    /\ pc[t] \in {"done", "failed"}
    /\ pc' = [pc EXCEPT ![t] = "idle"]
    /\ loc' = [loc EXCEPT ![t] = IdleLoc]
    /\ ret' = [ret EXCEPT ![t] = NoCfg]
    /\ UNCHANGED <<input, output, lruCache, clock, cfgCache, cacheLock, defaultConfig, cachedConfig, cachedSigner, env,
                   nCalls, ceCalls, lastWriter, preInvalidate>>

\* auth_refresh / invalidate_auth_cache: clears the cached control clients
InvalidateAuthCache ==
    /\ lruCache' = EmptyLru
    /\ preInvalidate' = DOMAIN cfgCache
    /\ loc' = [t \in Threads |->
                 IF pc[t] \notin {"ce_lookup", "ce_build", "ce_store"} THEN loc[t]
                 ELSE [loc[t] EXCEPT !.spanned = IF loc[t].built.ok THEN "built" ELSE "unbuilt"]]
    /\ UNCHANGED <<input, output, clock, cfgCache, cacheLock, defaultConfig, cachedConfig, cachedSigner, env,
                   pc, ret, nCalls, ceCalls, lastWriter>>

Next ==
    \/ Tick
    \/ InvalidateAuthCache
    \/ \E t \in Threads :
          \/ \E r \in Requests : GetCoreV1Client(t, r.cluster, r.endpoint, r.expiration)
          \/ AcquireForLookup(t)
          \/ CacheLookup(t)
          \/ ResolveIdentity(t)
          \/ Exchange(t)
          \/ DecodeAndLoad(t)
          \/ AcquireForStore(t)
          \/ CacheStore(t)
          \/ BuildClient(t)
          \/ Return(t)

Spec == Init /\ [][Next]_vars

----------------------------------------------------------------------------
(* oke_mcp_server/auth.py: the identity ladder and the cached control client *)

ResourcePrincipal == "ResourcePrincipal"
InstancePrincipal == "InstancePrincipal"
SecurityToken == "SecurityToken"
UserAPIKey == "UserAPIKey"

\* Python truthiness of an optional string
Truthy(s) == s # NoneVal /\ s # ""
\* a or b
Or(a, b) == IF Truthy(a) THEN a ELSE b

\* str.lower() on the auth strings in use
Lower(s) ==
    CASE s = "Security_Token" -> "security_token"
      [] s = "IP" -> "ip"
      [] s = "Instance_Principals" -> "instance_principals"
      [] OTHER -> s

\* _resolve_auth(auth): the resolved auth, and the environment it leaves
\* (it writes OCI_CLI_AUTH whenever the result is non-empty)
_resolve_auth(auth, e) ==
    LET a == IF auth = NoneVal THEN Or(e.settingsAuth, e.ociCliAuth) ELSE auth
    IN  [auth |-> a, env |-> IF Truthy(a) THEN [e EXCEPT !.ociCliAuth = a] ELSE e]

\* a configuration dict: empty ({}), or the keys the ladder reads
PkgConfig(loaded, region, tokenRef, delegRef, keyFile, apiKeys) ==
    [loaded |-> loaded, region |-> region, security_token_file |-> tokenRef,
     delegation_token_file |-> delegRef, key_file |-> keyFile, hasApiKeys |-> apiKeys]
EmptyDict == PkgConfig(FALSE, NoneVal, FALSE, FALSE, FALSE, FALSE)
RegionDict(region) ==
    IF Truthy(region) THEN PkgConfig(TRUE, region, FALSE, FALSE, FALSE, FALSE) ELSE EmptyDict

\* _load_oci_config(): the profile of the configuration file, {} without one
_load_oci_config(e) ==
    IF e.cfgFileOk
    THEN PkgConfig(TRUE, e.cfgRegion, e.hasTokenRef, e.hasDelegRef, e.cfgKeyFile, e.hasApiKeys)
    ELSE EmptyDict

\* _infer_region with the configuration region ignored
_infer_region_EnvOnly(config, e) == Or(e.ociRegion, "")

\* _infer_region(config): settings.oci_region is always None, then OCI_REGION,
\* the configuration's region, OCI_CLI_REGION, else ""
_infer_region(config, e) == Or(e.ociRegion, Or(config.region, Or(e.ociCliRegion, "")))

\* _build_security_token_signer_from_config(config) returns a signer
SecurityTokenSignerBuilds(config, e) ==
    /\ config.security_token_file \/ e.envTokenFile
    /\ config.key_file \/ e.envKeyFile
    /\ e.tokenExists
    /\ e.tokenReadable
    /\ e.keyOk

\* _try_resource_principals() and _try_instance_principals(): (cfg, signer),
\* signer FALSE standing for (None, None)
_try_resource_principals(e) ==
    IF e.rpSignal /\ e.rpOk
    THEN [cfg |-> RegionDict(Or(e.ociRegion, e.rpRegion)), signer |-> TRUE]
    ELSE [cfg |-> EmptyDict, signer |-> FALSE]
_try_instance_principals(e) ==
    IF e.ipOk
    THEN [cfg |-> RegionDict(Or(e.ociRegion, e.ipRegion)), signer |-> TRUE]
    ELSE [cfg |-> EmptyDict, signer |-> FALSE]

\* the instance-principal test of the ladder
RequestsInstancePrincipals(auth) ==
    Truthy(auth) /\ Lower(auth) \in {"instance_principals", "instance-principals", "ip"}

\* needs_token with the configuration's token entries ignored
NeedsToken_ExplicitOnly(auth, config) == Truthy(auth) /\ Lower(auth) = "security_token"

\* needs_token
NeedsToken(auth, config) ==
    \/ Truthy(auth) /\ Lower(auth) = "security_token"
    \/ config.security_token_file
    \/ config.delegation_token_file

\* ContainerEngineClient(config) with no signer: the SDK validates the
\* configuration and loads the key
SdkClientFromConfig(config, e) ==
    config.hasApiKeys /\ config.key_file /\ e.keyOk /\ Truthy(config.region)

\* the body of get_container_engine_client(auth) run in environment e
ContainerEngineClientBody(auth, e) ==
    LET ra == _resolve_auth(auth, e)
        a == ra.auth
        config == _load_oci_config(e)
        rp == _try_resource_principals(e)
        ip == _try_instance_principals(e)
        tried == IF e.rpSignal THEN {ResourcePrincipal} ELSE {}
        rpRegion == Or(_infer_region(config, e), _infer_region(rp.cfg, e))
        ipRegion == Or(_infer_region(config, e), _infer_region(ip.cfg, e))
        stRegion == _infer_region(config, e)
        out ==
            IF rp.signer
            THEN IF ~Truthy(rpRegion)
                 THEN Outcome(a, FALSE, ResourcePrincipal, NoneVal, "region", tried)
                 ELSE Outcome(a, TRUE, ResourcePrincipal, rpRegion, NoneVal, tried)
            ELSE IF RequestsInstancePrincipals(a)
            THEN IF ~ip.signer
                 THEN Outcome(a, FALSE, InstancePrincipal, NoneVal, "signer",
                              tried \cup {InstancePrincipal})
                 ELSE IF ~Truthy(ipRegion)
                 THEN Outcome(a, FALSE, InstancePrincipal, NoneVal, "region",
                              tried \cup {InstancePrincipal})
                 ELSE Outcome(a, TRUE, InstancePrincipal, ipRegion, NoneVal,
                              tried \cup {InstancePrincipal})
            ELSE IF NeedsToken(a, config)
            THEN IF ~SecurityTokenSignerBuilds(config, e)
                 THEN Outcome(a, FALSE, SecurityToken, NoneVal, "signer",
                              tried \cup {SecurityToken})
                 ELSE IF ~Truthy(stRegion)
                 THEN Outcome(a, FALSE, SecurityToken, NoneVal, "region",
                              tried \cup {SecurityToken})
                 ELSE Outcome(a, TRUE, SecurityToken, stRegion, NoneVal,
                              tried \cup {SecurityToken})
            ELSE IF ~config.loaded
            THEN Outcome(a, FALSE, UserAPIKey, NoneVal, "no_config", tried)
            ELSE IF ~SdkClientFromConfig(config, e)
            THEN Outcome(a, FALSE, UserAPIKey, NoneVal, "config", tried \cup {UserAPIKey})
            ELSE Outcome(a, TRUE, UserAPIKey, config.region, NoneVal, tried \cup {UserAPIKey})
    IN  [outcome |-> out, env |-> ra.env]

\* lru_cache keys: a call with no argument, a call with the keyword auth
NoArgKey == "()"
KwKey(auth) == "auth=" \o auth

\* the cached clients of earlier calls with the auth value `auth`: the keyword
\* call's entry and, for no override, the entry of the call without argument
ClientsFor(auth, cache) ==
    {cache[k] : k \in {k \in DOMAIN cache : k = KwKey(auth) \/ (auth = NoneVal /\ k = NoArgKey)}}

\* lru_cache storing a result: a key filled during the call keeps its value
LruPut(cache, key, client) ==
    IF key \in DOMAIN cache THEN cache
    ELSE [k \in (DOMAIN cache) \cup {key} |-> IF k = key THEN client ELSE cache[k]]

\* _yaml_to_dict(text): <<mapping>>; <<>> is its ValueError. No fallback here
_yaml_to_dict(text) ==
    LET data == yaml_safe_load(text)
    IN  IF data.kind = "mapping" THEN <<data.doc>> ELSE <<>>

\* get_core_v1_client's current-context default: the first context's name
FirstContextDefault(cfg) ==
    IF cfg.cc \in {NoKey, ""} /\ Len(cfg.contexts) > 0 /\ cfg.contexts[1].name # ""
    THEN [cfg EXCEPT !.cc = cfg.contexts[1].name]
    ELSE cfg

\* environments the package is started in
PkgRP == [EnvNone EXCEPT !.rpSignal = TRUE, !.rpOk = TRUE, !.rpRegion = "r1"]
PkgRPNoRegion == [PkgRP EXCEPT !.rpRegion = NoneVal]
PkgRPConfigRegion == [PkgRPNoRegion EXCEPT !.cfgFileOk = TRUE, !.cfgRegion = "r2"]
PkgRPBroken == [EnvApiKey EXCEPT !.rpSignal = TRUE]
PkgIP == [EnvNone EXCEPT !.ipOk = TRUE, !.ipRegion = "r1"]
PkgIPNoRegion == [PkgIP EXCEPT !.ipRegion = NoneVal]
PkgST ==
    [EnvNone EXCEPT !.cfgFileOk = TRUE, !.cfgRegion = "r1", !.hasTokenRef = TRUE,
                    !.cfgKeyFile = TRUE, !.tokenExists = TRUE, !.tokenReadable = TRUE,
                    !.keyOk = TRUE]
PkgSTNoRegion == [PkgST EXCEPT !.cfgRegion = NoneVal]
PkgSTPinned == [PkgST EXCEPT !.settingsAuth = "security_token", !.ociCliAuth = "security_token"]
PkgSTMissingToken == [PkgST EXCEPT !.tokenExists = FALSE]
PkgUAK == EnvApiKey
PkgUAKNoRegion == [EnvApiKey EXCEPT !.cfgRegion = NoneVal]
PkgUAKWithIP == [EnvApiKey EXCEPT !.ipOk = TRUE, !.ipRegion = "r2"]

PkgEnvironments ==
    {EnvNone, PkgRP, PkgRPNoRegion, PkgRPConfigRegion, PkgRPBroken, PkgIP, PkgIPNoRegion,
     PkgST, PkgSTNoRegion, PkgSTPinned, PkgSTMissingToken, PkgUAK, PkgUAKNoRegion, PkgUAKWithIP}

\* the auth arguments the tools pass to get_core_v1_client
AuthArgs == {NoneVal, "security_token", "ip"}
PkgClusters == {"c1"}

InitResolve ==
    /\ clock = 0
    /\ cfgCache = EmptyCache
    /\ cacheLock = NoneVal
    /\ defaultConfig = NoCfg
    /\ cachedConfig = <<>>
    /\ cachedSigner = NoneVal
    /\ env \in PkgEnvironments
    /\ pc = [t \in Threads |-> "idle"]
    /\ loc = [t \in Threads |-> IdleLoc]
    /\ ret = [t \in Threads |-> NoCfg]
    /\ lruCache = EmptyLru
    /\ nCalls = 0
    /\ ceCalls = 0
    /\ lastWriter = EmptyLog
    /\ preInvalidate = {}
    /\ input = NotApplied
    /\ output = NotApplied

\* get_core_v1_client(cluster_id, endpoint, auth): _resolve_auth, then the call
\* of get_container_engine_client(auth=auth)
PkgGetCoreV1Client(t, cluster, auth) ==
    /\ pc[t] = "idle"
    /\ nCalls < MaxCalls
    /\ nCalls' = nCalls + 1
    /\ LET ra == _resolve_auth(auth, env)
       IN  /\ env' = ra.env
           /\ loc' = [loc EXCEPT ![t] =
                        [IdleLoc EXCEPT !.fn = "get_core_v1_client", !.cluster = cluster,
                                        !.arg = auth, !.auth = ra.auth,
                                        !.lruKey = KwKey(ra.auth), !.callNo = nCalls + 1,
                                        !.reusable = ClientsFor(ra.auth, lruCache)]]
    /\ pc' = [pc EXCEPT ![t] = "ce_lookup"]
    /\ UNCHANGED <<input, output, clock, cfgCache, cacheLock, defaultConfig, cachedConfig, cachedSigner, ret,
                   lruCache, ceCalls, lastWriter, preInvalidate>>

\* get_container_engine_client() as the cluster tools call it
GetContainerEngineClient(t) ==
    /\ pc[t] = "idle"
    /\ nCalls < MaxCalls
    /\ nCalls' = nCalls + 1
    /\ loc' = [loc EXCEPT ![t] =
                 [IdleLoc EXCEPT !.fn = "get_container_engine_client", !.lruKey = NoArgKey,
                                 !.callNo = nCalls + 1,
                                 !.reusable = ClientsFor(NoneVal, lruCache)]]
    /\ pc' = [pc EXCEPT ![t] = "ce_lookup"]
    /\ UNCHANGED <<input, output, clock, cfgCache, cacheLock, defaultConfig, cachedConfig, cachedSigner, env,
                   ret, lruCache, ceCalls, lastWriter, preInvalidate>>

\* where a call goes once it holds a control client
AfterClient(fn) == IF fn = "get_core_v1_client" THEN "kubeconfig" ELSE "done"

\* lru_cache looks the key up
CeLookup(t) ==
    /\ pc[t] = "ce_lookup"
    /\ IF loc[t].lruKey \in DOMAIN lruCache
       THEN /\ loc' = [loc EXCEPT ![t].lruHit = TRUE, ![t].client = lruCache[loc[t].lruKey]]
            /\ pc' = [pc EXCEPT ![t] = AfterClient(loc[t].fn)]
       ELSE /\ pc' = [pc EXCEPT ![t] = "ce_build"]
            /\ UNCHANGED loc
    /\ UNCHANGED <<input, output, clock, cfgCache, cacheLock, defaultConfig, cachedConfig, cachedSigner, env,
                   ret, lruCache, nCalls, ceCalls, lastWriter, preInvalidate>>

\* on a miss the body runs: it resolves the identity and builds the client
CeBuild(t) ==
    /\ pc[t] = "ce_build"
    /\ LET b == ContainerEngineClientBody(loc[t].auth, env)
       IN  /\ env' = b.env
           /\ loc' = [loc EXCEPT ![t].built = b.outcome,
                                 ![t].failure = IF b.outcome.ok THEN NoneVal ELSE "identity"]
           /\ pc' = [pc EXCEPT ![t] = IF b.outcome.ok THEN "ce_store" ELSE "failed"]
    /\ UNCHANGED <<input, output, clock, cfgCache, cacheLock, defaultConfig, cachedConfig, cachedSigner, ret,
                   lruCache, nCalls, ceCalls, lastWriter, preInvalidate>>

\* lru_cache stores the result and hands it to the caller
CeStore(t) ==
    /\ pc[t] = "ce_store"
    /\ LET c == Client(loc[t].built.mode, loc[t].built.region, loc[t].callNo,
                       loc[t].spanned = "built")
       IN  /\ lruCache' = LruPut(lruCache, loc[t].lruKey, c)
           /\ loc' = [loc EXCEPT ![t].client = c]
    /\ pc' = [pc EXCEPT ![t] = AfterClient(loc[t].fn)]
    /\ UNCHANGED <<input, output, clock, cfgCache, cacheLock, defaultConfig, cachedConfig, cachedSigner, env,
                   ret, nCalls, ceCalls, lastWriter, preInvalidate>>

\* ce.create_kubeconfig, _yaml_to_dict, the current-context default and
\* load_kube_config_from_dict
\* the locals once get_container_engine_client has returned and create_kubeconfig
\* was called: the control client and the record of how it was obtained are dead
Exchanged(l) ==
    [l EXCEPT !.lruHit = FALSE, !.built = NoOutcome, !.client = NoClient, !.reusable = {},
              !.spanned = NoneVal]

PkgKubeconfig(t) ==
    /\ pc[t] = "kubeconfig"
    /\ ceCalls' = ceCalls + 1
    /\ \/ /\ loc' = [loc EXCEPT ![t] = Exchanged(loc[t]), ![t].exchanged = TRUE, ![t].failure = "exchange"]
          /\ pc' = [pc EXCEPT ![t] = "failed"]
          /\ UNCHANGED defaultConfig
       \/ \E text \in Responses(loc[t].cluster, ceCalls + 1) :
             LET cfg_dict == _yaml_to_dict(text)
                 cfg == FirstContextDefault(IF cfg_dict = <<>> THEN NoCfg ELSE cfg_dict[1])
             IN  IF cfg_dict = <<>>
                 THEN /\ loc' = [loc EXCEPT ![t] = Exchanged(loc[t]), ![t].exchanged = TRUE, ![t].failure = "decode"]
                      /\ pc' = [pc EXCEPT ![t] = "failed"]
                      /\ UNCHANGED defaultConfig
                 ELSE IF ~LoadKubeConfigOk(cfg)
                 THEN /\ loc' = [loc EXCEPT ![t] = Exchanged(loc[t]), ![t].exchanged = TRUE, ![t].failure = "context"]
                      /\ pc' = [pc EXCEPT ![t] = "failed"]
                      /\ UNCHANGED defaultConfig
                 ELSE /\ loc' = [loc EXCEPT ![t] = Exchanged(loc[t]), ![t].exchanged = TRUE]
                      /\ defaultConfig' = cfg
                      /\ pc' = [pc EXCEPT ![t] = "build"]
    /\ UNCHANGED <<input, output, clock, cfgCache, cacheLock, cachedConfig, cachedSigner, env, ret, lruCache,
                   nCalls, lastWriter, preInvalidate>>

NextResolve ==
    \/ InvalidateAuthCache
    \/ \E t \in Threads :
          \/ \E cluster \in PkgClusters, auth \in AuthArgs : PkgGetCoreV1Client(t, cluster, auth)
          \/ GetContainerEngineClient(t)
          \/ CeLookup(t)
          \/ CeBuild(t)
          \/ CeStore(t)
          \/ PkgKubeconfig(t)
          \/ BuildClient(t)
          \/ Return(t)

SpecResolve == InitResolve /\ [][NextResolve]_vars

\* the same callers with no invalidation: every resolution of the ladder
NextLadder ==
    \E t \in Threads :
        \/ \E cluster \in PkgClusters, auth \in AuthArgs : PkgGetCoreV1Client(t, cluster, auth)
        \/ GetContainerEngineClient(t)
        \/ CeLookup(t)
        \/ CeBuild(t)
        \/ CeStore(t)
        \/ PkgKubeconfig(t)
        \/ BuildClient(t)
        \/ Return(t)

SpecLadder == InitResolve /\ [][NextLadder]_vars

----------------------------------------------------------------------------
(* Properties of the kubeconfig cache *)

\* clamp(r / 6, 300, 1200) for a requested lifetime r (None counts as 3600)
ClampedSixth(requested) ==
    LET r == IF requested = <<>> THEN 3600 ELSE requested[1]
    IN  Max(300, Min(r \div 6, 1200))

\* the current context of a document is set and names one of its contexts
NamesExistingContext(cfg) ==
    /\ cfg.cc # NoKey
    /\ cfg.cc # ""
    /\ \E i \in 1..Len(cfg.contexts) : cfg.contexts[i].name = cfg.cc

\* a complete cache entry for key k: a decoded bundle of k's cluster with a
\* usable context, and an expiry
CompleteEntry(entry, k) ==
    /\ entry.cfg.cluster = k[1]
    /\ entry.cfg.serial >= 1
    /\ NamesExistingContext(entry.cfg)
    /\ entry.expiresAt >= 300

\* thread t's call went through the exchange and wrote the cache
Wrote(t) == pc[t] \in {"build", "done"} /\ loc[t].exchanged

\* C1: a lookup whose `now` is before the entry's expiry is served the cached
\* bundle and goes straight to building the client, with no create_kubeconfig
\* call; a lookup at or after the expiry, or with no entry, is a miss; and every
\* entry written at time t for requested lifetime r expires at
\* t + clamp(r/6, 300, 1200).
C1_TtlDiscipline ==
    [][\A t \in Threads :
          /\ (pc[t] = "lookup" /\ pc'[t] # "lookup") =>
                LET key == loc[t].key
                    live == key \in DOMAIN cfgCache /\ loc[t].now < cfgCache[key].expiresAt
                IN  /\ live => /\ pc'[t] = "build"
                               /\ loc'[t].hit
                               /\ loc'[t].cfg = cfgCache[key].cfg
                               /\ defaultConfig' = cfgCache[key].cfg
                               /\ ceCalls' = ceCalls
                    /\ ~live => pc'[t] = "identity" /\ ~loc'[t].hit
          /\ (pc[t] = "store" /\ pc'[t] # "store") =>
                cfgCache'[loc[t].key].expiresAt = clock + ClampedSixth(loc[t].requested)
          /\ loc[t].hit => /\ pc'[t] \in {"build", "done", "idle"}
                           /\ ~loc[t].exchanged
    ]_vars

\* a lookup after time has passed is served an entry that has not yet expired
C1_Witness ==
    \E t \in Threads :
        /\ pc[t] = "build"
        /\ loc[t].hit
        /\ clock > 0
        /\ clock < cfgCache[loc[t].key].expiresAt

\* C2: no lookup is served an entry that was cached before the last
\* invalidate_auth_cache: after an invalidation the next call for a cached,
\* unexpired cluster exchanges again.
C2_InvalidateForcesExchange == \A t \in Threads : loc[t].hit => ~loc[t].stale

\* C3: every cache entry is a complete (bundle, expiresAt) pair; while the
\* last writer of a key has not returned, the entry is that writer's bundle;
\* and a call fails only for a reason of its own (no configuration, the
\* service's error, an undecodable payload, a payload with no usable context),
\* never because of the interleaving.
C3_ConcurrentColdCalls ==
    /\ \A k \in DOMAIN cfgCache : CompleteEntry(cfgCache[k], k)
    /\ DOMAIN lastWriter = DOMAIN cfgCache
    /\ \A t \in Threads :
          (Wrote(t) /\ lastWriter[loc[t].key] = t) => cfgCache[loc[t].key].cfg = loc[t].cfg
    /\ \A t \in Threads :
          pc[t] = "failed" =>
             \/ loc[t].failure = "identity" /\ ~(env.cfgFileOk /\ env.hasApiKeys)
             \/ loc[t].failure = "exchange"
             \/ loc[t].failure = "decode" /\ ~IsDecoded(loc[t].text)
             \/ /\ loc[t].failure = "context"
                /\ IsDecoded(loc[t].text)
                /\ DecodedCfg(loc[t].text).cc = NoKey
                /\ DecodedCfg(loc[t].text).contexts = <<>>
                /\ (DecodedCfg(loc[t].text).clusters = <<>> \/ DecodedCfg(loc[t].text).users = <<>>)

\* two calls for the same cold key both exchanged and both wrote
C3_Witness ==
    \E t, u \in Threads :
        /\ t # u
        /\ Wrote(t) /\ Wrote(u)
        /\ loc[t].key = loc[u].key
        /\ loc[t].cfg # loc[u].cfg
        /\ lastWriter[loc[t].key] = t

\* C4: the client returned to the caller that asked for cluster C is built
\* from a bundle of cluster C.
C4_ClientBuiltFromOwnBundle ==
    \A t \in Threads :
        (pc[t] = "done" /\ ~env.inCluster) => ret[t].cluster = loc[t].cluster

\* C5: the cache changes only in the write step of a call that has exchanged,
\* decoded and established a current context, and that step sets that call's
\* key alone; a step that makes a call fail leaves the cache as it was.
C5_WriteOnlyAfterSuccess ==
    [][/\ cfgCache' # cfgCache =>
             \E t \in Threads :
                 /\ pc[t] = "store" /\ pc'[t] = "build"
                 /\ loc[t].exchanged
                 /\ loc[t].cfg.cluster = loc[t].cluster
                 /\ NamesExistingContext(loc[t].cfg)
                 /\ DOMAIN cfgCache' = DOMAIN cfgCache \cup {loc[t].key}
                 /\ cfgCache'[loc[t].key].cfg = loc[t].cfg
                 /\ \A k \in DOMAIN cfgCache : k # loc[t].key => cfgCache'[k] = cfgCache[k]
       /\ \A t \in Threads :
             (pc'[t] = "failed" /\ pc[t] # "failed") => cfgCache' = cfgCache
    ]_vars

\* a call failed after its exchange while another call's entry is cached
C5_Witness ==
    \E t \in Threads :
        /\ pc[t] = "failed"
        /\ loc[t].failure \in {"decode", "context"}
        /\ DOMAIN cfgCache # {}

----------------------------------------------------------------------------
(* Properties of the identity ladder *)

IdentityModes == {ResourcePrincipal, InstancePrincipal, SecurityToken, UserAPIKey}

\* the call of thread t ran the ladder (the lru_cache missed)
Resolved(t) == loc[t].built # NoOutcome

\* the mode the ladder selects: by the environment signal, the explicit
\* override, a token reference in the configuration, else the user key
SelectedMode(auth, e) ==
    IF e.rpSignal THEN ResourcePrincipal
    ELSE IF Truthy(auth) /\ Lower(auth) \in {"instance_principals", "instance-principals", "ip"}
    THEN InstancePrincipal
    ELSE IF (Truthy(auth) /\ Lower(auth) = "security_token")
            \/ (e.cfgFileOk /\ (e.hasTokenRef \/ e.hasDelegRef))
    THEN SecurityToken
    ELSE UserAPIKey

\* C6: while the resource-principal signal is present, every control client a
\* call holds was built with the resource-principal signer.
C6_ResourcePrincipalPriority ==
    \A t \in Threads :
        (env.rpSignal /\ loc[t].client # NoClient) => loc[t].client.mode = ResourcePrincipal

\* C7: a resolution tries to build the signer of the selected mode only, and a
\* client it returns is authenticated in the selected mode: when that signer
\* cannot be built the resolution fails and no lower mode is tried.
C7_NoSilentDowngrade ==
    \A t \in Threads :
        Resolved(t) =>
            LET b == loc[t].built
                m == SelectedMode(b.auth, env)
            IN  /\ b.attempted \subseteq {m}
                /\ b.ok => b.mode = m

\* the mode's signer can be built in environment e
SignerAvailable(m, e) ==
    CASE m = ResourcePrincipal -> e.rpSignal /\ e.rpOk
      [] m = InstancePrincipal -> e.ipOk
      [] m = SecurityToken ->
            /\ (e.cfgFileOk /\ e.hasTokenRef) \/ e.envTokenFile
            /\ (e.cfgFileOk /\ e.cfgKeyFile) \/ e.envKeyFile
            /\ e.tokenExists /\ e.tokenReadable /\ e.keyOk
      [] m = UserAPIKey -> e.cfgFileOk /\ e.hasApiKeys /\ e.cfgKeyFile /\ e.keyOk

\* the region the mode can use: OCI_REGION, the configuration's region,
\* OCI_CLI_REGION, and for the principal modes the signer's own region
RegionAvailable(m, e) ==
    LET hints == Or(e.ociRegion, Or(IF e.cfgFileOk THEN e.cfgRegion ELSE NoneVal, e.ociCliRegion))
    IN  CASE m = ResourcePrincipal -> Or(hints, e.rpRegion)
          [] m = InstancePrincipal -> Or(hints, e.ipRegion)
          [] m = SecurityToken -> hints
          [] m = UserAPIKey -> IF e.cfgFileOk THEN e.cfgRegion ELSE NoneVal

\* a valid environment for exactly mode m under resolved auth `auth`: the mode
\* is the one selected, its signer can be built and its region is known
ValidFor(m, auth, e) ==
    /\ SelectedMode(auth, e) = m
    /\ SignerAvailable(m, e)
    /\ Truthy(RegionAvailable(m, e))

\* C8: a resolution run in a valid environment for exactly one mode, with no
\* signal for a higher one, succeeds with that mode's signer and tries to build
\* no other mode's signer.
C8_EachModeResolves ==
    \A t \in Threads : \A m \in IdentityModes :
        (Resolved(t) /\ ValidFor(m, loc[t].built.auth, env)) =>
            /\ loc[t].built.ok
            /\ loc[t].built.mode = m
            /\ loc[t].built.attempted = {m}

\* a resolution selected security-token mode through the configuration's token
\* reference alone and returned a security-token client
C8_Witness ==
    \E t \in Threads :
        /\ Resolved(t)
        /\ ~Truthy(loc[t].built.auth)
        /\ ValidFor(SecurityToken, loc[t].built.auth, env)
        /\ pc[t] = "ce_store"

\* the environment the process was started with: OCI_CLI_AUTH as
\* settings.oci_cli_auth recorded it at import
SuppliedEnv(e) == [e EXCEPT !.ociCliAuth = e.settingsAuth]

\* C9: a resolution ends as the same resolution does in the environment the
\* process was started with, whatever calls came before it: same success, same
\* mode, same error.
C9_ResolutionDeterministic ==
    \A t \in Threads :
        Resolved(t) =>
            LET b == loc[t].built
                first == ContainerEngineClientBody(loc[t].arg, SuppliedEnv(env)).outcome
            IN  /\ b.ok = first.ok
                /\ b.mode = first.mode
                /\ b.error = first.error

----------------------------------------------------------------------------
(* Properties of the cached control client *)

\* the call of thread t started after the last invalidation had returned
StartedAfterInvalidate(t) == loc[t].fn # NoneVal /\ loc[t].spanned = NoneVal

\* C11: a call that started after the last invalidate() returned never holds a
\* control client that was built before that invalidation.
C11_InvalidateForcesResolution ==
    \A t \in Threads :
        (StartedAfterInvalidate(t) /\ loc[t].client # NoClient)
            => ~loc[t].client.stale

\* C12: a call that found a client cached for its auth value when it started,
\* with no invalidation since, runs no identity resolution and holds one of the
\* clients it found.
C12_ControlClientReuse ==
    \A t \in Threads :
        (StartedAfterInvalidate(t) /\ loc[t].reusable # {})
            => /\ ~Resolved(t)
               /\ loc[t].client # NoClient => loc[t].client \in loc[t].reusable

----------------------------------------------------------------------------
(* The decoding ladder applied to one response text *)

MaxEsc == 2

\* the process at rest, no caller in flight
AtRest ==
    /\ clock = 0
    /\ cfgCache = EmptyCache
    /\ cacheLock = NoneVal
    /\ defaultConfig = NoCfg
    /\ cachedConfig = <<>>
    /\ cachedSigner = NoneVal
    /\ env = EnvNone
    /\ pc = [t \in Threads |-> "idle"]
    /\ loc = [t \in Threads |-> IdleLoc]
    /\ ret = [t \in Threads |-> NoCfg]
    /\ lruCache = EmptyLru
    /\ nCalls = 0
    /\ ceCalls = 0
    /\ lastWriter = EmptyLog
    /\ preInvalidate = {}

program == <<clock, cfgCache, cacheLock, defaultConfig, cachedConfig, cachedSigner,
             env, pc, loc, ret, lruCache, nCalls, ceCalls, lastWriter, preInvalidate>>

\* bodies: a bundle, an empty bundle, a bundle with a single ": ", a mapping
\* with none, and a scalar
Bodies ==
    {YamlText(KcNoCurrent("c1", 1)), YamlText(KcEmpty("c1", 1)),
     [YamlText(KcClustersOnly("c1", 1)) EXCEPT !.colons = 1],
     [YamlText(KcEmpty("c1", 1)) EXCEPT !.colons = 0],
     ScalarText}

Texts ==
    {[b EXCEPT !.quote = q, !.esc = e, !.pad = p] :
        q \in {NoQuote, DoubleQuote, SingleQuote}, e \in 0..MaxEsc, p \in BOOLEAN, b \in Bodies}

Arg == input[1]
Result == output[1]

InitDecode == AtRest /\ input \in {<<text>> : text \in Texts} /\ output = NotApplied

\* cfg = the outcome of the ladder on kubeconfig_str
ApplyDecode ==
    /\ output = NotApplied
    /\ output' = <<DecodeKubeconfig(Arg)>>
    /\ UNCHANGED <<input, program>>

NextDecode == ApplyDecode

SpecDecode == InitDecode /\ [][NextDecode]_vars

IsCanonical(text) == text.quote = NoQuote /\ text.esc = 0 /\ ~text.pad /\ text.mapping

\* the candidates in the stated order; one that cannot be formed is left out
Candidates(raw) ==
    <<raw>>
    \o (IF Wrapped(strip(raw))
        THEN <<Unwrap(strip(raw)), unicode_escape(Unwrap(strip(raw)))>> ELSE <<>>)
    \o (IF json_loads(raw) # <<>>
        THEN <<json_loads(raw)[1], unicode_escape(json_loads(raw)[1])>> ELSE <<>>)
    \o <<unicode_escape(raw)>>

RECURSIVE FirstMapping(_)
FirstMapping(cands) ==
    IF cands = <<>> THEN <<>>
    ELSE IF yaml_safe_load(Head(cands)).kind = "mapping" THEN <<yaml_safe_load(Head(cands)).doc>>
    ELSE FirstMapping(Tail(cands))

\* C13: decoding yields the mapping of the first candidate, in the order raw
\* text, quote-stripped text, that text unescaped, string-literal content, that
\* content unescaped, whole text unescaped, whose parse is a mapping; it fails
\* exactly when no candidate is one; a canonical text is decoded as it stands.
C13_FirstCandidateWins ==
    output # NotApplied =>
        /\ Result.cfg = FirstMapping(Candidates(Arg))
        /\ IsCanonical(Arg) => Result = Decoded(<<Arg.doc>>, "raw")

\* a doubly escaped, double-quoted bundle is decoded by the fifth candidate
C13_Witness ==
    /\ output # NotApplied
    /\ Arg.quote = DoubleQuote /\ Arg.esc = 2 /\ Arg.colons = 2 /\ Arg.mapping
    /\ Result = Decoded(<<Arg.doc>>, "inner_u")

\* C14: a canonical bundle wrapped in one layer of double quotes with its
\* newlines escaped decodes to the mapping the bundle itself decodes to.
C14_QuotedRoundTrip ==
    (output # NotApplied /\ Arg.mapping /\ ~Arg.pad /\ Arg = QuotedEscaped(Arg))
        => Result.cfg = DecodeKubeconfig([Arg EXCEPT !.quote = NoQuote, !.esc = 0]).cfg

----------------------------------------------------------------------------
(* _load_kubeconfig_for_cluster applied to one response and one lifetime *)

LoadKey == <<"c1", ENDPOINT_PUBLIC_ENDPOINT, DefaultTokenVersion>>

\* the call under study: the function, the text the service answers with, the
\* expiration argument (<<>> is None). For the package expiration stands for
\* OKE_KUBECONFIG_EXP_SECONDS (<<>> is unset or empty) and numeric tells
\* whether its text is that of an integer
Call(fn, text, expiration) ==
    [fn |-> fn, text |-> text, expiration |-> expiration, numeric |-> TRUE]

\* sent: the expiration create_kubeconfig was called with; decoded: the ladder
\* gave a mapping; cfg: the mapping handed to the loader; accepted: it loaded
Loaded(sent, decoded, cfg, accepted) ==
    [sent |-> sent, decoded |-> decoded, cfg |-> cfg, accepted |-> accepted]

\* bundles: none, one or two clusters and users; no, one or three contexts; the
\* current context absent, empty, naming the first context, or naming none
DocClusters == {<<>>, <<"c1">>, <<"c1", "c2">>}
DocUsers == {<<>>, <<User("u1", ExecArgs)>>, <<User("u1", ExecArgs), User("u2", ExecArgs)>>}
DocContexts ==
    {<<>>, <<Ctx("x1", "c1", "u1")>>,
     <<Ctx("x1", "c1", "u1"), Ctx("x2", "c2", "u2"), Ctx("x3", "c1", "u2")>>}
DocCurrent == {NoKey, "", "x1", "x9"}

Documents ==
    {Kubeconfig("c1", 1, cur, ctxs, cls, us) :
        cur \in DocCurrent, ctxs \in DocContexts, cls \in DocClusters, us \in DocUsers}

InitBundle ==
    /\ AtRest
    /\ input \in {<<Call("_load_kubeconfig_for_cluster", YamlText(doc), <<DefaultExpiration>>)>> :
                     doc \in Documents}
    /\ output = NotApplied

\* _load_kubeconfig_for_cluster from the exchange on: clamp, create_kubeconfig,
\* decode, patch, normalize, load, and the cache write when nothing raised
ApplyLoad ==
    /\ output = NotApplied
    /\ Arg.fn = "_load_kubeconfig_for_cluster"
    /\ LET expiration == ClampExpiration(Arg.expiration)
           decoded == IsDecoded(Arg.text)
           cfg == NormalizeContext(
                      _maybe_patch_security_token_exec(DecodedCfg(Arg.text), env.ociCliAuth))
           accepted == decoded /\ LoadKubeConfigOk(cfg)
       IN  /\ output' = <<Loaded(expiration, decoded, cfg, accepted)>>
           /\ defaultConfig' = IF accepted THEN cfg ELSE defaultConfig
           /\ cfgCache' = IF accepted
                          THEN CachePut(cfgCache, LoadKey, cfg, clock + CacheTtl(expiration))
                          ELSE cfgCache
    /\ ceCalls' = ceCalls + 1
    /\ UNCHANGED <<input, clock, cacheLock, cachedConfig, cachedSigner, env, pc, loc, ret,
                   lruCache, nCalls, lastWriter, preInvalidate>>

NextBundle == ApplyLoad

SpecBundle == InitBundle /\ [][NextBundle]_vars

\* the bundle the service answered with
Bundle == Arg.text.doc

\* C15: a bundle that is accepted, cached or loaded has a non-empty current
\* context naming one of its contexts; a bundle whose current context cannot be
\* established (nothing to build one from, or a pre-set name no context bears)
\* makes the call fail and leaves the cache without an entry.
C15_CurrentContextInvariant ==
    output # NotApplied =>
        /\ Result.accepted => NamesExistingContext(Result.cfg)
        /\ \A k \in DOMAIN cfgCache : NamesExistingContext(cfgCache[k].cfg)
        /\ defaultConfig # NoCfg => NamesExistingContext(defaultConfig)
        /\ ~NamesExistingContext(Result.cfg) => ~Result.accepted /\ cfgCache = EmptyCache
        /\ (Bundle.cc = NoKey /\ Bundle.contexts = <<>> /\ Bundle.clusters = <<>>
              /\ Bundle.users = <<>>) => ~Result.accepted /\ cfgCache = EmptyCache
        /\ (Bundle.cc # NoKey /\ ~NamesExistingContext(Bundle))
              => ~Result.accepted /\ cfgCache = EmptyCache

\* a bundle whose pre-set current context names no context was refused
C15_Witness ==
    /\ output # NotApplied
    /\ Bundle.cc = "x9" /\ Len(Bundle.contexts) = 3 /\ Len(Bundle.clusters) = 2
    /\ ~Result.accepted /\ cfgCache = EmptyCache

\* C16: one cluster, one user, no contexts and no current context: exactly one
\* context is appended, it references that cluster and that user, and it is
\* the current context.
C16_SynthesizedContext ==
    (output # NotApplied /\ Len(Bundle.clusters) = 1 /\ Len(Bundle.users) = 1
       /\ Bundle.contexts = <<>> /\ Bundle.cc = NoKey)
        => /\ Len(Result.cfg.contexts) = 1
           /\ Result.cfg.contexts[1].cluster = Bundle.clusters[1]
           /\ Result.cfg.contexts[1].user = Bundle.users[1].name
           /\ Result.cfg.cc = Result.cfg.contexts[1].name
           /\ Result.cfg.cc \notin {NoKey, ""}

\* such a bundle was normalized and accepted
C16_Witness ==
    /\ output # NotApplied
    /\ Bundle.clusters = <<"c1">> /\ Len(Bundle.users) = 1
    /\ Bundle.contexts = <<>> /\ Bundle.cc = NoKey
    /\ Result.accepted /\ Result.cfg.cc = "ctx-c1-u1"

\* C17: three contexts and none current: the current context becomes the name
\* of the first context and the context list stays as it was, whatever
\* clusters and users the bundle holds.
C17_FirstOfThree ==
    (output # NotApplied /\ Len(Bundle.contexts) = 3 /\ Bundle.cc = NoKey)
        => /\ Result.cfg.cc = Bundle.contexts[1].name
           /\ Result.cfg.contexts = Bundle.contexts

----------------------------------------------------------------------------
(* The lifetime asked of create_kubeconfig and the lifetime of the cache entry *)

Spread == 6

\* lifetimes around each limit of the two clamps, and some far from them
Lifetimes ==
    UNION {(k - Spread)..(k + Spread) : k \in {0, 300, 1800, 7200, 86400}}
        \cup {-86401, 3600, 172800}

\* kwargs["expiration"] of the package's get_core_v1_client: int(exp_env) when
\* the variable is set, not empty and an integer; else the keyword is left out
PkgExpiration(exp_env, numeric) ==
    IF exp_env = <<>> THEN <<>>
    ELSE IF numeric THEN <<exp_env[1]>>
    ELSE <<>>

InitLifetime ==
    /\ AtRest
    /\ input \in
          {<<Call("_load_kubeconfig_for_cluster", YamlText(KcNoCurrent("c1", 1)), x)>> :
              x \in {<<>>} \cup {<<n>> : n \in Lifetimes}}
          \cup
          {<<Call("get_core_v1_client", YamlText(KcNoCurrent("c1", 1)), x)>> :
              x \in {<<>>} \cup {<<n>> : n \in Lifetimes}}
          \cup
          {<<[Call("get_core_v1_client", YamlText(KcNoCurrent("c1", 1)), <<0>>)
                 EXCEPT !.numeric = FALSE]>>}
    /\ output = NotApplied

\* the package's get_core_v1_client from the kwargs on: create_kubeconfig,
\* _yaml_to_dict, the current-context default, load; nothing is cached
ApplyPkgKubeconfig ==
    /\ output = NotApplied
    /\ Arg.fn = "get_core_v1_client"
    /\ LET cfg_dict == _yaml_to_dict(Arg.text)
           cfg == FirstContextDefault(IF cfg_dict = <<>> THEN NoCfg ELSE cfg_dict[1])
           accepted == cfg_dict # <<>> /\ LoadKubeConfigOk(cfg)
       IN  /\ output' = <<Loaded(PkgExpiration(Arg.expiration, Arg.numeric), cfg_dict # <<>>, cfg, accepted)>>
           /\ defaultConfig' = IF accepted THEN cfg ELSE defaultConfig
    /\ ceCalls' = ceCalls + 1
    /\ UNCHANGED <<input, clock, cfgCache, cacheLock, cachedConfig, cachedSigner, env, pc, loc,
                   ret, lruCache, nCalls, lastWriter, preInvalidate>>

NextLifetime ==
    \/ ApplyLoad
    \/ ApplyPkgKubeconfig

SpecLifetime == InitLifetime /\ [][NextLifetime]_vars

\* C18: every create_kubeconfig call carries a lifetime within [300, 86400],
\* whatever the caller passed or OKE_KUBECONFIG_EXP_SECONDS holds.
C18_LifetimeClamped ==
    output # NotApplied =>
        /\ Result.sent # <<>>
        /\ Result.sent[1] >= 300
        /\ Result.sent[1] <= 86400

\* C19: on every cache write the entry lives clamp(requested / 6, 300, 1200)
\* seconds, for every requested lifetime: expiresAt minus the write time equals
\* that value and lies in [300, 1200].
C19_CacheLifetime ==
    (output # NotApplied /\ Arg.fn = "_load_kubeconfig_for_cluster")
        => /\ LoadKey \in DOMAIN cfgCache
           /\ cfgCache[LoadKey].expiresAt - clock = ClampedSixth(Arg.expiration)
           /\ cfgCache[LoadKey].expiresAt - clock >= 300
           /\ cfgCache[LoadKey].expiresAt - clock <= 1200

\* a write for a requested lifetime of 0 seconds
C19_Witness ==
    /\ output # NotApplied
    /\ Arg.fn = "_load_kubeconfig_for_cluster"
    /\ Arg.expiration = <<0>>
    /\ LoadKey \in DOMAIN cfgCache
    /\ cfgCache[LoadKey].expiresAt = clock + 300

----------------------------------------------------------------------------
(* The guarded write handlers of handlers/oke.py *)

\* values of OKE_ENABLE_WRITE: unset, the three that enable, and others
WriteFlags == {NoneVal, "1", "true", "True", "", "0", "TRUE", "yes"}

\* a guard that also takes the upper-case spelling
_ensure_writes_enabled_AnyCase(e) == e.enableWrite \in {"1", "true", "True", "TRUE"}

\* _ensure_writes_enabled() does not raise
_ensure_writes_enabled(e) == e.enableWrite \in {"1", "true", "True"}

\* the params dict of either handler; NoneVal and <<>> are None or absent
Params(node_pool_id, size, cluster_id, namespace, name) ==
    [node_pool_id |-> node_pool_id, size |-> size, cluster_id |-> cluster_id,
     namespace |-> namespace, name |-> name]

ScaleParams ==
    {Params(np, size, NoneVal, NoneVal, NoneVal) :
        np \in {NoneVal, "np1"}, size \in {<<>>, <<-1>>, <<0>>, <<3>>, <<1000>>, <<1001>>}}
RestartParams ==
    {Params(NoneVal, <<>>, c, ns, n) :
        c \in {NoneVal, "c1"}, ns \in {NoneVal, "default"}, n \in {NoneVal, "web"}}

Handler(fn, params) == [fn |-> fn, params |-> params]

\* how a handler ended: the exception raised (NoneVal: it returned) and the
\* steps it took after the guard, in order
Handled(error, steps) == [error |-> error, steps |-> steps]

InitWrite ==
    /\ clock = 0
    /\ cfgCache = EmptyCache
    /\ cacheLock = NoneVal
    /\ defaultConfig = NoCfg
    /\ cachedConfig = <<>>
    /\ cachedSigner = NoneVal
    /\ env \in {[e EXCEPT !.enableWrite = w] :
                   e \in {EnvApiKey, EnvNoConfig, EnvInCluster}, w \in WriteFlags}
    /\ pc = [t \in Threads |-> "idle"]
    /\ loc = [t \in Threads |-> IdleLoc]
    /\ ret = [t \in Threads |-> NoCfg]
    /\ lruCache = EmptyLru
    /\ nCalls = 0
    /\ ceCalls = 0
    /\ lastWriter = EmptyLog
    /\ preInvalidate = {}
    /\ input \in {<<Handler("scale_node_pool", p)>> : p \in ScaleParams}
                 \cup {<<Handler("restart_deployment", p)>> : p \in RestartParams}
    /\ output = NotApplied

\* scale_node_pool(params): guard, validation, get_container_engine_client()
\* of oci_auth, update_node_pool
ScaleNodePool ==
    LET p == Arg.params
        config == get_config(cachedConfig, env)
        signer == get_signer(cachedSigner, config, env)
    IN
    /\ output = NotApplied
    /\ Arg.fn = "scale_node_pool"
    /\ IF ~_ensure_writes_enabled(env)
       THEN /\ output' = <<Handled("PermissionError", <<>>)>>
            /\ UNCHANGED <<cachedConfig, cachedSigner>>
       ELSE IF p.node_pool_id = NoneVal \/ p.size = <<>> \/ p.size[1] < 0 \/ p.size[1] > 1000
       THEN /\ output' = <<Handled("ValueError", <<"validate">>)>>
            /\ UNCHANGED <<cachedConfig, cachedSigner>>
       ELSE /\ cachedConfig' = get_config_cache(cachedConfig, env)
            /\ cachedSigner' = signer
            /\ IF ~ClientConstructs(config, signer)
               THEN output' = <<Handled("identity", <<"validate", "get_container_engine_client">>)>>
               ELSE \E error \in {NoneVal, "ServiceError"} :
                       output' = <<Handled(error, <<"validate", "get_container_engine_client",
                                                    "update_node_pool">>)>>
    /\ UNCHANGED <<input, clock, cfgCache, cacheLock, defaultConfig, env, pc, loc, ret, lruCache,
                   nCalls, ceCalls, lastWriter, preInvalidate>>

\* restart_deployment(params): guard, validation, get_core_v1_client(cluster_id)
\* of oke_auth on a cold cache, patch_namespaced_deployment
RestartDeployment ==
    LET p == Arg.params
        config == get_config(cachedConfig, env)
        signer == get_signer(cachedSigner, config, env)
        key == <<p.cluster_id, _resolve_endpoint(ENDPOINT_PUBLIC_ENDPOINT, env), DefaultTokenVersion>>
        expiration == ClampExpiration(<<DefaultExpiration>>)
    IN
    /\ output = NotApplied
    /\ Arg.fn = "restart_deployment"
    /\ IF ~_ensure_writes_enabled(env)
       THEN /\ output' = <<Handled("PermissionError", <<>>)>>
            /\ UNCHANGED <<cachedConfig, cachedSigner, cfgCache, defaultConfig, ceCalls>>
       ELSE IF p.cluster_id = NoneVal \/ p.namespace = NoneVal \/ p.name = NoneVal
       THEN /\ output' = <<Handled("ValueError", <<"validate">>)>>
            /\ UNCHANGED <<cachedConfig, cachedSigner, cfgCache, defaultConfig, ceCalls>>
       ELSE IF env.inCluster
       THEN /\ defaultConfig' = InClusterCfg
            /\ \E error \in {NoneVal, "ApiException"} :
                  output' = <<Handled(error, <<"validate", "get_core_v1_client",
                                               "patch_namespaced_deployment">>)>>
            /\ UNCHANGED <<cachedConfig, cachedSigner, cfgCache, ceCalls>>
       ELSE /\ cachedConfig' = get_config_cache(cachedConfig, env)
            /\ cachedSigner' = signer
            /\ IF ~ClientConstructs(config, signer)
               THEN /\ output' = <<Handled("identity", <<"validate", "get_core_v1_client">>)>>
                    /\ UNCHANGED <<cfgCache, defaultConfig, ceCalls>>
               ELSE /\ ceCalls' = ceCalls + 1
                    /\ \E text \in Responses(p.cluster_id, ceCalls + 1) :
                          LET cfg == NormalizeContext(
                                         _maybe_patch_security_token_exec(DecodedCfg(text),
                                                                          env.ociCliAuth))
                          IN  IF ~(IsDecoded(text) /\ LoadKubeConfigOk(cfg))
                              THEN /\ output' = <<Handled("ValueError",
                                                          <<"validate", "get_core_v1_client">>)>>
                                   /\ UNCHANGED <<cfgCache, defaultConfig>>
                              ELSE /\ defaultConfig' = cfg
                                   /\ cfgCache' = CachePut(cfgCache, key, cfg,
                                                           clock + CacheTtl(expiration))
                                   /\ \E error \in {NoneVal, "ApiException"} :
                                         output' = <<Handled(error,
                                                      <<"validate", "get_core_v1_client",
                                                        "patch_namespaced_deployment">>)>>
    /\ UNCHANGED <<input, clock, cacheLock, env, pc, loc, ret, lruCache, nCalls, lastWriter,
                   preInvalidate>>

NextWrite ==
    \/ ScaleNodePool
    \/ RestartDeployment

SpecWrite == InitWrite /\ [][NextWrite]_vars

\* the process is as it was before the call
Untouched ==
    /\ cfgCache = EmptyCache
    /\ defaultConfig = NoCfg
    /\ cachedConfig = <<>>
    /\ cachedSigner = NoneVal
    /\ ceCalls = 0

\* C20: unless OKE_ENABLE_WRITE is 1, true or True when the handler is called,
\* scale_node_pool and restart_deployment raise the permission error before
\* any other step: no validation, no client, no mutating call.
C20_WriteGuard ==
    output # NotApplied =>
        /\ env.enableWrite \notin {"1", "true", "True"}
              => Result = Handled("PermissionError", <<>>) /\ Untouched
        /\ env.enableWrite \in {"1", "true", "True"} => Result.error # "PermissionError"

\* a disabled call with missing parameters ended in the permission error
C20_Witness ==
    /\ output # NotApplied
    /\ env.enableWrite = "TRUE"
    /\ Arg.fn = "restart_deployment" /\ Arg.params.cluster_id = NoneVal
    /\ Result = Handled("PermissionError", <<>>)

----------------------------------------------------------------------------
(* The lock of the kubeconfig cache *)

C22_NoSingleFlight ==
    \A t \in Threads :
        (pc[t] = "acquire_lookup" /\ cacheLock = NoneVal) => ENABLED AcquireForLookup(t)

\* two calls for the same key both missed and each made its own exchange
C22_Witness ==
    \E t, u \in Threads :
        /\ t # u
        /\ loc[t].key = loc[u].key
        /\ pc[t] = "decode" /\ pc[u] = "decode"
        /\ loc[t].exchanged /\ loc[u].exchanged
        /\ ceCalls = 2
        /\ cfgCache = EmptyCache

----------------------------------------------------------------------------
(* The cache of control clients and the identity modes *)

\* C23: the cache of control clients never holds two clients bound to the
\* same identity mode.
C23_OneClientPerMode ==
    \A j, k \in DOMAIN lruCache : j # k => lruCache[j].mode # lruCache[k].mode

----------------------------------------------------------------------------
(* The cache of control clients under a change of region *)

\* the region the process is moved to
NewRegion == "r3"

\* the process starts with a configuration, or a principal, that has a region
RegionEnvironments == {PkgUAK, PkgRP, PkgIP, PkgST}

InitRegion ==
    /\ clock = 0
    /\ cfgCache = EmptyCache
    /\ cacheLock = NoneVal
    /\ defaultConfig = NoCfg
    /\ cachedConfig = <<>>
    /\ cachedSigner = NoneVal
    /\ env \in RegionEnvironments
    /\ pc = [t \in Threads |-> "idle"]
    /\ loc = [t \in Threads |-> IdleLoc]
    /\ ret = [t \in Threads |-> NoCfg]
    /\ lruCache = EmptyLru
    /\ nCalls = 0
    /\ ceCalls = 0
    /\ lastWriter = EmptyLog
    /\ preInvalidate = {}
    /\ input = NotApplied
    /\ output = NotApplied

\* OCI_REGION is set, or the region of the configuration file is edited
ChangeRegion ==
    /\ \/ /\ env.ociRegion = NoneVal
          /\ env' = [env EXCEPT !.ociRegion = NewRegion]
       \/ /\ env.cfgFileOk
          /\ env.cfgRegion # NewRegion
          /\ env' = [env EXCEPT !.cfgRegion = NewRegion]
    /\ UNCHANGED <<input, output, clock, cfgCache, cacheLock, defaultConfig, cachedConfig,
                   cachedSigner, pc, loc, ret, lruCache, nCalls, ceCalls, lastWriter,
                   preInvalidate>>

NextRegion ==
    \/ ChangeRegion
    \/ \E t \in Threads :
          \/ \E cluster \in PkgClusters, auth \in AuthArgs : PkgGetCoreV1Client(t, cluster, auth)
          \/ GetContainerEngineClient(t)
          \/ CeLookup(t)
          \/ CeBuild(t)
          \/ CeStore(t)
          \/ PkgKubeconfig(t)
          \/ BuildClient(t)
          \/ Return(t)

SpecRegion == InitRegion /\ [][NextRegion]_vars

\* C24: a call is never handed a cached control client bound to another
\* region than the one resolved when it asks: a change of region invalidates.
C24_RegionChangeInvalidates ==
    [][\A t \in Threads :
          (pc[t] = "ce_lookup" /\ loc'[t].lruHit)
              => LET now == ContainerEngineClientBody(loc[t].auth, env).outcome
                 IN  now.ok => loc'[t].client.region = now.region]_vars

----------------------------------------------------------------------------
\* C25: no current context and not exactly one context: a context is appended
\* only when the bundle has exactly one cluster and exactly one user; with more
\* than one cluster or user nothing is appended and the first existing
\* context, if any, becomes the current one.
C25_SynthesisOnlyForSinglePair ==
    (output # NotApplied /\ Arg.fn = "_load_kubeconfig_for_cluster"
       /\ Bundle.cc = NoKey /\ Len(Bundle.contexts) # 1)
        => /\ Result.cfg.contexts # Bundle.contexts
                => Len(Bundle.clusters) = 1 /\ Len(Bundle.users) = 1
           /\ (Len(Bundle.clusters) > 1 \/ Len(Bundle.users) > 1)
                => /\ Result.cfg.contexts = Bundle.contexts
                   /\ Bundle.contexts # <<>> => Result.cfg.cc = Bundle.contexts[1].name

----------------------------------------------------------------------------
\* a lookup by t that finds an unexpired entry for its cluster, endpoint and
\* token version
UnexpiredFor(t, k) ==
    /\ k \in DOMAIN cfgCache
    /\ k[1] = loc[t].key[1] /\ k[2] = loc[t].key[2] /\ k[3] = loc[t].key[3]
    /\ cfgCache[k].expiresAt > loc[t].now

\* C26: a lookup that finds an unexpired entry for the cluster, endpoint and
\* token version of the call, whatever lifetime the call asked for, serves
\* that entry, leaves the cache map and the entry's expiry as they were and
\* makes no exchange; the call it serves never reaches the exchange.
C26_HitIsReadOnly ==
    [][\A t \in Threads :
          /\ loc[t].hit => pc[t] \in {"build", "done"} /\ ~loc[t].exchanged
          /\ (pc[t] = "lookup" /\ pc'[t] # "lookup" /\ \E k \in DOMAIN cfgCache : UnexpiredFor(t, k))
                => /\ pc'[t] = "build" /\ loc'[t].hit
                   /\ cfgCache' = cfgCache
                   /\ ceCalls' = ceCalls
                   /\ \E k \in DOMAIN cfgCache : UnexpiredFor(t, k) /\ loc'[t].cfg = cfgCache[k].cfg]_vars

\* a call asking for 60 seconds is about to be served, at time 300, the entry
\* that another call, which asked for 3600 seconds, wrote at time 0
C26_Witness ==
    \E t \in Threads :
        /\ pc[t] = "lookup" /\ cacheLock = t
        /\ loc[t].requested = <<60>> /\ loc[t].now = TickStep
        /\ \E k \in DOMAIN cfgCache :
              /\ UnexpiredFor(t, k)
              /\ cfgCache[k].expiresAt = CacheTtl(<<DefaultExpiration>>)
              /\ lastWriter[k] # t
        /\ ENABLED CacheLookup(t)

----------------------------------------------------------------------------
\* C27: no step removes an entry of the kubeconfig cache: the set of cached
\* keys never shrinks, and the only step that changes the map is the write
\* that ends a successful fetch, which changes the entry of its own key alone.
C27_EntriesNeverRemoved ==
    [][/\ DOMAIN cfgCache \subseteq DOMAIN cfgCache'
       /\ cfgCache' # cfgCache
            => \E t \in Threads :
                  /\ pc[t] = "store" /\ pc'[t] = "build"
                  /\ loc[t].exchanged /\ loc[t].cfg # NoCfg
                  /\ loc[t].key \in DOMAIN cfgCache'
                  /\ \A k \in DOMAIN cfgCache : k # loc[t].key => cfgCache'[k] = cfgCache[k]]_vars

\* an entry written at time 0 has expired and is still cached, beside the
\* entry a later fetch for another key wrote
C27_Witness ==
    \E j, k \in DOMAIN cfgCache :
        /\ j # k
        /\ cfgCache[j].expiresAt <= clock
        /\ cfgCache[k].expiresAt > cfgCache[j].expiresAt

----------------------------------------------------------------------------
(* _resolve_endpoint applied to one endpoint argument under one OKE_ENDPOINT *)

\* the spellings of one word: the letter cases and the blank space around it
Cases ==
    [PUBLIC |-> {"PUBLIC", "public", "Public", "pUbLiC"},
     PUBLIC_ENDPOINT |-> {"PUBLIC_ENDPOINT", "public_endpoint", "Public_Endpoint"},
     PRIVATE |-> {"PRIVATE", "private", "Private", "pRiVaTe"},
     PRIVATE_ENDPOINT |-> {"PRIVATE_ENDPOINT", "private_endpoint", "Private_EndPoint"},
     VCN_HOSTNAME |-> {"VCN_HOSTNAME", "vcn_hostname"},
     OTHER_WORD |-> {"", "publicendpoint", "PRIVATE ENDPOINT", "PUB LIC"}]
Pads == {<<"", "">>, <<" ", "">>, <<"", " ">>, <<"  ", " ">>, <<"\t", "\n">>}

\* an endpoint argument: the text passed, and the word it spells
Endpoint(word, text) == [word |-> word, text |-> text]
Endpoints ==
    {Endpoint(NoneVal, NoneVal)} \cup
    UNION {{Endpoint(w, pad[1] \o c \o pad[2]) : c \in Cases[w], pad \in Pads} :
              w \in DOMAIN Cases}

\* OKE_ENDPOINT: unset, empty, or a text
EnvEndpoints == {NoneVal, "", "PRIVATE", " public\n", "private_endpoint", "bogus"}

\* the results: _resolve_endpoint once, as get_core_v1_client applies it
\* before the call; the cache key of that call; _resolve_endpoint again, as
\* _load_kubeconfig_for_cluster applies it after the lookup
EndpointResult(once, key, twice) == [once |-> once, key |-> key, twice |-> twice]

InitEndpoint ==
    /\ clock = 0
    /\ cfgCache = EmptyCache
    /\ cacheLock = NoneVal
    /\ defaultConfig = NoCfg
    /\ cachedConfig = <<>>
    /\ cachedSigner = NoneVal
    /\ env \in {[EnvNone EXCEPT !.okeEndpoint = oe] : oe \in EnvEndpoints}
    /\ pc = [t \in Threads |-> "idle"]
    /\ loc = [t \in Threads |-> IdleLoc]
    /\ ret = [t \in Threads |-> NoCfg]
    /\ lruCache = EmptyLru
    /\ nCalls = 0
    /\ ceCalls = 0
    /\ lastWriter = EmptyLog
    /\ preInvalidate = {}
    /\ input \in {<<ep>> : ep \in Endpoints}
    /\ output = NotApplied

\* endpoint = _resolve_endpoint(endpoint) in get_core_v1_client, the cache key
\* and the second _resolve_endpoint in _load_kubeconfig_for_cluster
ApplyResolveEndpoint ==
    /\ output = NotApplied
    /\ LET once == _resolve_endpoint(Arg.text, env)
       IN  output' = <<EndpointResult(once,
                                      cache_key("c1", once, DefaultTokenVersion, <<>>),
                                      _resolve_endpoint(once, env))>>
    /\ UNCHANGED <<input, clock, cfgCache, cacheLock, defaultConfig, cachedConfig, cachedSigner,
                   env, pc, loc, ret, lruCache, nCalls, ceCalls, lastWriter, preInvalidate>>

NextEndpoint == ApplyResolveEndpoint

SpecEndpoint == InitEndpoint /\ [][NextEndpoint]_vars

\* C28: _resolve_endpoint applied to its own result gives that result again,
\* under the same environment; every spelling of PUBLIC or PUBLIC_ENDPOINT, in
\* any letter case and with blank space around it, gives the one public
\* constant, every spelling of PRIVATE or PRIVATE_ENDPOINT the one private
\* constant; so calls that differ only in the spelling have one cache key.
C28_EndpointCanonical ==
    output # NotApplied =>
        /\ Result.twice = Result.once
        /\ Arg.word \in {"PUBLIC", "PUBLIC_ENDPOINT"}
             => /\ Result.once = ENDPOINT_PUBLIC_ENDPOINT
                /\ Result.key = <<"c1", ENDPOINT_PUBLIC_ENDPOINT, DefaultTokenVersion>>
        /\ Arg.word \in {"PRIVATE", "PRIVATE_ENDPOINT"}
             => /\ Result.once = ENDPOINT_PRIVATE_ENDPOINT
                /\ Result.key = <<"c1", ENDPOINT_PRIVATE_ENDPOINT, DefaultTokenVersion>>

\* a mixed-case private spelling between a tab and a newline was resolved to
\* the private constant while OKE_ENDPOINT asks for the public one
C28_Witness ==
    /\ output # NotApplied
    /\ Arg.text = "\tpRiVaTe\n" /\ env.okeEndpoint = " public\n"
    /\ Result.once = ENDPOINT_PRIVATE_ENDPOINT /\ Result.twice = ENDPOINT_PRIVATE_ENDPOINT

----------------------------------------------------------------------------
(* oci_auth.py: every function of the module, called in any order with any *)
(* configuration, while the token file and the key file come and go        *)

MaxSignerCalls == 3

\* the configurations a caller may pass to get_signer
SignerConfigs ==
    {EmptyConfig} \cup
    {[loaded |-> TRUE, hasTokenRef |-> h, hasApiKeys |-> a] : h, a \in BOOLEAN}

\* a configuration file with or without a security_token_file entry; the token
\* file and the key file present or not
SignerEnvironments ==
    {[EnvApiKey EXCEPT !.hasTokenRef = h, !.tokenExists = x, !.tokenReadable = x, !.keyOk = k] :
        h, x, k \in BOOLEAN}

\* what a call returned: the function, the configuration it worked on, the
\* signer it returned or built its client with (NoneVal is None)
SignerCall(fn, config, signer) == [fn |-> fn, config |-> config, signer |-> signer]

InitSigner ==
    /\ clock = 0
    /\ cfgCache = EmptyCache
    /\ cacheLock = NoneVal
    /\ defaultConfig = NoCfg
    /\ cachedConfig = <<>>
    /\ cachedSigner = NoneVal
    /\ env \in SignerEnvironments
    /\ pc = [t \in Threads |-> "idle"]
    /\ loc = [t \in Threads |-> IdleLoc]
    /\ ret = [t \in Threads |-> NoCfg]
    /\ lruCache = EmptyLru
    /\ nCalls = 0
    /\ ceCalls = 0
    /\ lastWriter = EmptyLog
    /\ preInvalidate = {}
    /\ input = NotApplied
    /\ output = NotApplied

\* the token file or the key file is written, removed or made unreadable
ChangeFiles ==
    /\ \/ \E x \in BOOLEAN : env' = [env EXCEPT !.tokenExists = x, !.tokenReadable = x]
       \/ env' = [env EXCEPT !.tokenReadable = FALSE]
       \/ \E k \in BOOLEAN : env' = [env EXCEPT !.keyOk = k]
    /\ env' # env
    /\ UNCHANGED <<input, output, clock, cfgCache, cacheLock, defaultConfig, cachedConfig,
                   cachedSigner, pc, loc, ret, lruCache, nCalls, ceCalls, lastWriter,
                   preInvalidate>>

\* get_config()
LegacyGetConfig ==
    /\ nCalls < MaxSignerCalls
    /\ nCalls' = nCalls + 1
    /\ cachedConfig' = get_config_cache(cachedConfig, env)
    /\ output' = <<SignerCall("get_config", get_config(cachedConfig, env), NoneVal)>>
    /\ UNCHANGED <<input, clock, cfgCache, cacheLock, defaultConfig, cachedSigner, env, pc, loc,
                   ret, lruCache, ceCalls, lastWriter, preInvalidate>>

\* get_signer(config)
LegacyGetSigner(config) ==
    /\ nCalls < MaxSignerCalls
    /\ nCalls' = nCalls + 1
    /\ cachedSigner' = get_signer(cachedSigner, config, env)
    /\ output' = <<SignerCall("get_signer", config, get_signer(cachedSigner, config, env))>>
    /\ UNCHANGED <<input, clock, cfgCache, cacheLock, defaultConfig, cachedConfig, env, pc, loc,
                   ret, lruCache, ceCalls, lastWriter, preInvalidate>>

\* get_container_engine_client() and get_identity_client(): get_config(),
\* get_signer(config), then the client's constructor
LegacyGetClient(fn) ==
    LET config == get_config(cachedConfig, env) IN
    /\ nCalls < MaxSignerCalls
    /\ nCalls' = nCalls + 1
    /\ cachedConfig' = get_config_cache(cachedConfig, env)
    /\ cachedSigner' = get_signer(cachedSigner, config, env)
    /\ output' = <<SignerCall(fn, config, get_signer(cachedSigner, config, env))>>
    /\ UNCHANGED <<input, clock, cfgCache, cacheLock, defaultConfig, env, pc, loc, ret, lruCache,
                   ceCalls, lastWriter, preInvalidate>>

NextSigner ==
    \/ ChangeFiles
    \/ LegacyGetConfig
    \/ \E config \in SignerConfigs : LegacyGetSigner(config)
    \/ \E fn \in {"get_container_engine_client", "get_identity_client"} : LegacyGetClient(fn)

SpecSigner == InitSigner /\ [][NextSigner]_vars

\* the step is a call that asked for the signer
SignerAsked == nCalls' # nCalls /\ output'[1].fn # "get_config"

----------------------------------------------------------------------------
(* _maybe_patch_security_token_exec applied once, and again to its result *)

MaxArgs == 3

\* the exec args of the user: up to MaxArgs words
ArgWords == {"generate-token", "--auth", "security_token", "api_key"}
ArgLists == UNION {[1..n -> ArgWords] : n \in 0..MaxArgs}

\* a bundle whose one user has the exec args `args`
PatchBundle(args) ==
    Kubeconfig("c1", 1, "x1", <<Ctx("x1", "c1", "u1")>>, <<"c1">>, <<User("u1", args)>>)

Patched(once, twice) == [once |-> once, twice |-> twice]

InitPatch ==
    /\ clock = 0
    /\ cfgCache = EmptyCache
    /\ cacheLock = NoneVal
    /\ defaultConfig = NoCfg
    /\ cachedConfig = <<>>
    /\ cachedSigner = NoneVal
    /\ env \in {[EnvNone EXCEPT !.ociCliAuth = a] : a \in {NoneVal, "security_token"}}
    /\ pc = [t \in Threads |-> "idle"]
    /\ loc = [t \in Threads |-> IdleLoc]
    /\ ret = [t \in Threads |-> NoCfg]
    /\ lruCache = EmptyLru
    /\ nCalls = 0
    /\ ceCalls = 0
    /\ lastWriter = EmptyLog
    /\ preInvalidate = {}
    /\ input \in {<<PatchBundle(args)>> : args \in ArgLists}
    /\ output = NotApplied

\* the bundle after one call, and after a second call on the patched bundle
ApplyPatch ==
    /\ output = NotApplied
    /\ LET once == _maybe_patch_security_token_exec(Arg, env.ociCliAuth)
       IN  output' = <<Patched(once, _maybe_patch_security_token_exec(once, env.ociCliAuth))>>
    /\ UNCHANGED <<input, clock, cfgCache, cacheLock, defaultConfig, cachedConfig, cachedSigner,
                   env, pc, loc, ret, lruCache, nCalls, ceCalls, lastWriter, preInvalidate>>

NextPatch == ApplyPatch

SpecPatch == InitPatch /\ [][NextPatch]_vars

\* C30: under OCI_CLI_AUTH=security_token, patching a patched bundle changes
\* nothing, whatever exec args the user had: without --auth, with --auth
\* followed by another value, or ending in --auth.
C30_PatchIdempotent ==
    (output # NotApplied /\ env.ociCliAuth = "security_token") => Result.twice = Result.once
====
